---- MODULE Spec2Model ----
(***************************************************************************)
(* radioscope: 802.11 traffic sonification.                                *)
(*                                                                         *)
(* The model covers the sample queue shared by AudioHandle::play and the   *)
(* realtime callback (audio.rs), the consumer loop with its five gates     *)
(* (main.rs, events.rs) and the DeviceTracker (devices.rs).                *)
(*                                                                         *)
(* Floats are fixed point in thousandths: 1.0 is 1000, 0.08 is 80.         *)
(* Instants and Durations are integers in milliseconds.                    *)
(***************************************************************************)
EXTENDS Integers, Sequences, FiniteSets, TLC

VARIABLES
    \* audio.rs: the sample queue, its mutex, the play call and the callback
    queue, qlock, playPc, playArgs, cbPc, cbLeft, cbData,
    \* the monotonic clock read by Instant::now()
    now,
    \* events.rs: the EventWindow and the RateLimiter of the consumer loop
    window, limiter,
    \* the last call made on a component on its own, with what it returned
    call,
    \* history: the instants at which try_count passed, per bucket, and the
    \* instant of the last call allow let through, per (kind, key)
    passLog, allowedAt,
    \* main.rs: the shared operator settings
    settings, audio_enabled, web_sound_enabled, volume_by_signal,
    \* devices.rs: the four maps of the DeviceTracker
    devices, blocked, ssid_cache, channel_cache,
    \* main.rs: the channel from the sniffer, the consumer loop's counter and
    \* position, the broadcast channel to the websocket handlers (the events
    \* kept for a subscriber) and the number of its receivers
    packet_rx, data_counter, cons, packet_notifier, listeners,
    \* sniffer.rs: the capture thread's position, the frame it has decoded,
    \* the function it is in and the number of times it has opened the device
    sniffer,
    \* devices.rs: the four RwLocks of the DeviceTracker and, per thread, the
    \* call it is making on the tracker and how far it has come
    locks, calls,
    \* audio.rs: per clone of the AudioHandle, the play call it is making and
    \* how far it has come; history: the arguments of the play calls in the
    \* order they took the mutex, the samples popped and the calls begun
    handles, hist

audioVars == <<queue, qlock, playPc, playArgs, cbPc, cbLeft, cbData>>
shaperVars == <<window, limiter>>
historyVars == <<call, passLog, allowedAt>>

flagVars == <<audio_enabled, web_sound_enabled, volume_by_signal>>

trackerVars == <<devices, blocked, ssid_cache, channel_cache>>

pipeVars ==
    <<packet_rx, data_counter, cons, packet_notifier, listeners, sniffer>>

lockVars == <<locks, calls>>

handleVars == <<handles, hist>>

nonAudioVars ==
    <<now, shaperVars, historyVars, settings, flagVars, trackerVars, pipeVars,
      lockVars, handleVars>>

vars ==
    <<audioVars, now, shaperVars, historyVars, settings, flagVars, trackerVars,
      pipeVars, lockVars, handleVars>>

\* Option<T>: None is the empty tuple and Some(x) the tuple of x.
None == <<>>
Some(x) == <<x>>
IsSome(o) == o # <<>>
Unwrap(o) == o[1]

\* [u8; 6]: the MAC addresses of the model.
M1 == <<2, 0, 0, 0, 0, 1>>
M2 == <<2, 0, 0, 0, 0, 2>>
M3 == <<2, 0, 0, 0, 171, 205>>

(***************************************************************************)
(* Bounds of the model.                                                    *)
(***************************************************************************)
MaxQueue == 1
MaxSlots == 2
\* The clock stops at MaxTime.
MaxTime == 200
\* A device is observed while its frame count is below MaxFrames.
MaxFrames == 3
\* The clock of the device tracker stops at MaxAge.
MaxAge == 60001

(***************************************************************************)
(* audio.rs                                                                *)
(***************************************************************************)
SoundIds ==
    {"BeaconTick", "ProbeChirp", "ProbeReply", "AssocUp", "DeauthZap",
     "EapolMotif", "RtsKnock", "CtsKnockback", "AckClick", "DataTick",
     "RetryGlitch"}

\* build_palette: the volume each sound is synthesised at, in thousandths.
Volume(id) ==
    CASE id = "BeaconTick"   -> 80
      [] id = "ProbeChirp"   -> 140
      [] id = "ProbeReply"   -> 140
      [] id = "AssocUp"      -> 160
      [] id = "DeauthZap"    -> 400
      [] id = "EapolMotif"   -> 120
      [] id = "RtsKnock"     -> 120
      [] id = "CtsKnockback" -> 120
      [] id = "AckClick"     -> 40
      [] id = "DataTick"     -> 70
      [] id = "RetryGlitch"  -> 50

\* The palette is immutable after startup.  A buffer of sample_rate * ms / 1000
\* samples of amplitude at most the sound's volume is cut down to two samples,
\* one at +volume and one at -volume (the motif, a concatenation of notes, to
\* three).
Palette(id) ==
    IF id = "EapolMotif"
    THEN <<Volume(id), -Volume(id), Volume(id)>>
    ELSE <<Volume(id), -Volume(id)>>

\* f32::clamp
Clamp(x, lo, hi) == IF x < lo THEN lo ELSE IF x > hi THEN hi ELSE x

\* *sample * gain, the gain as passed
Scaled_raw(buf, gain) == [i \in 1..Len(buf) |-> (buf[i] * gain) \div 1000]

\* *sample * gain.clamp(0.0, 1.2), for every sample of a buffer
Scaled(buf, gain) ==
    [i \in 1..Len(buf) |-> (buf[i] * Clamp(gain, 0, 1200)) \div 1000]

\* The gains a caller passes: the event amplitudes 0.2 .. 1.0 of main.rs and the
\* out-of-range ones.
Gains == {-1000, 200, 1000, 2000}

\* The sounds the audio specification plays.
AudioIds == {"BeaconTick", "DeauthZap"}

\* AudioHandle::play, entered: the call has its arguments and is about to lock.
PlayCall(id, overlay_retry, gain) ==
    /\ playPc = "idle"
    /\ Len(queue) <= MaxQueue
    /\ playPc' = "lock"
    /\ playArgs' = [id |-> id, overlay_retry |-> overlay_retry, gain |-> gain]
    /\ UNCHANGED <<queue, qlock, cbPc, cbLeft, cbData>>
    /\ UNCHANGED nonAudioVars

\* self.queue.lock(): std::sync::Mutex::lock parks the caller until the mutex
\* is free.
PlayLock ==
    /\ playPc = "lock"
    /\ qlock = "free"
    /\ qlock' = "play"
    /\ playPc' = "sound"
    /\ UNCHANGED <<queue, playArgs, cbPc, cbLeft, cbData>>
    /\ UNCHANGED nonAudioVars

\* for sample in sound.iter() { queue.push_back(..) }
PlaySound ==
    /\ playPc = "sound"
    /\ queue' = queue \o Scaled(Palette(playArgs.id), playArgs.gain)
    /\ playPc' = IF playArgs.overlay_retry THEN "glitch" ELSE "unlock"
    /\ UNCHANGED <<qlock, playArgs, cbPc, cbLeft, cbData>>
    /\ UNCHANGED nonAudioVars

\* if overlay_retry { for sample in glitch.iter() { queue.push_back(..) } }
PlayGlitch ==
    /\ playPc = "glitch"
    /\ queue' = queue \o Scaled(Palette("RetryGlitch"), playArgs.gain)
    /\ playPc' = "unlock"
    /\ UNCHANGED <<qlock, playArgs, cbPc, cbLeft, cbData>>
    /\ UNCHANGED nonAudioVars

\* The guard is dropped at the end of play.
PlayUnlock ==
    /\ playPc = "unlock"
    /\ qlock' = "free"
    /\ playPc' = "idle"
    /\ UNCHANGED <<queue, playArgs, cbPc, cbLeft, cbData>>
    /\ UNCHANGED nonAudioVars

\* The audio device invokes the callback over n output slots.  call keeps
\* the number of slots and the queue the invocation found.
CallbackInvoke(n) ==
    /\ cbPc = "idle"
    /\ cbPc' = "slot"
    /\ cbLeft' = n
    /\ cbData' = <<>>
    /\ call' = [op |-> "write_samples", n |-> n, queue |-> queue]
    /\ UNCHANGED <<queue, qlock, playPc, playArgs>>
    /\ UNCHANGED <<now, shaperVars, passLog, allowedAt, settings, flagVars,
                   trackerVars, pipeVars, lockVars, handleVars>>

\* pop_sample: queue.lock().  The mutex is taken when free; when another thread
\* holds it the callback thread is parked on it.
PopLock ==
    /\ cbPc = "slot"
    /\ \/ /\ qlock = "free"
          /\ qlock' = "callback"
          /\ cbPc' = "locked"
       \/ /\ qlock # "free"
          /\ cbPc' = "blocked"
          /\ UNCHANGED qlock
    /\ UNCHANGED <<queue, playPc, playArgs, cbLeft, cbData>>
    /\ UNCHANGED nonAudioVars

\* The parked callback thread gets the mutex once its holder released it.
PopWake ==
    /\ cbPc = "blocked"
    /\ qlock = "free"
    /\ qlock' = "callback"
    /\ cbPc' = "locked"
    /\ UNCHANGED <<queue, playPc, playArgs, cbLeft, cbData>>
    /\ UNCHANGED nonAudioVars

\* pop_sample reading the front of the queue without removing it
PopFront_peek ==
    /\ cbPc = "locked"
    /\ LET v == IF queue = <<>> THEN 0 ELSE Head(queue)
       IN  cbData' = Append(cbData, Clamp(v, -1000, 1000))
    /\ qlock' = "free"
    /\ cbLeft' = cbLeft - 1
    /\ cbPc' = IF cbLeft = 1 THEN "idle" ELSE "slot"
    /\ UNCHANGED <<queue, playPc, playArgs>>
    /\ UNCHANGED nonAudioVars

\* pop_sample: .and_then(|mut q| q.pop_front()).unwrap_or(0.0).clamp(-1.0, 1.0),
\* written to the slot by write_samples_f32; the guard is dropped.
PopFront ==
    /\ cbPc = "locked"
    /\ LET v == IF queue = <<>> THEN 0 ELSE Head(queue)
       IN  cbData' = Append(cbData, Clamp(v, -1000, 1000))
    /\ queue' = IF queue = <<>> THEN <<>> ELSE Tail(queue)
    /\ qlock' = "free"
    /\ cbLeft' = cbLeft - 1
    /\ cbPc' = IF cbLeft = 1 THEN "idle" ELSE "slot"
    /\ UNCHANGED <<playPc, playArgs>>
    /\ UNCHANGED nonAudioVars

AudioInit ==
    /\ queue = <<>>
    /\ qlock = "free"
    /\ playPc = "idle"
    /\ playArgs = [id |-> "BeaconTick", overlay_retry |-> FALSE, gain |-> 1000]
    /\ cbPc = "idle"
    /\ cbLeft = 0
    /\ cbData = <<>>

(***************************************************************************)
(* devices.rs                                                              *)
(***************************************************************************)
DeviceRoles == {"Ap", "Client", "Unknown"}

\* merge_role giving the new role
merge_role_new(current, new_role) == new_role

\* merge_role keeping the current role unless it is Unknown
merge_role_first(current, new_role) ==
    IF current # "Unknown" THEN current ELSE new_role

merge_role(current, new_role) ==
    CASE current = "Ap" \/ new_role = "Ap" -> "Ap"
      [] current = "Client" \/ new_role = "Client" -> "Client"
      [] OTHER -> "Unknown"

role_rank(role) ==
    CASE role = "Ap" -> 0
      [] role = "Client" -> 1
      [] role = "Unknown" -> 2

\* {:02X}
HexDigits == <<"0", "1", "2", "3", "4", "5", "6", "7", "8", "9",
               "A", "B", "C", "D", "E", "F">>
HexByte(b) == HexDigits[(b \div 16) + 1] \o HexDigits[(b % 16) + 1]

format_mac(mac) ==
    HexByte(mac[1]) \o ":" \o HexByte(mac[2]) \o ":" \o HexByte(mac[3]) \o ":"
    \o HexByte(mac[4]) \o ":" \o HexByte(mac[5]) \o ":" \o HexByte(mac[6])

\* u64: the model holds the counts of a window of the 64-bit ring around 0, a
\* count of 2^63 or more written as the same 64 bits read as a signed number,
\* so that u64::MAX, 2^64 - 1, is -1 and u64::MAX - 1 is -2.
U64Max == -1

\* The unsigned order of two counts.
U64Less(a, b) ==
    IF (a < 0) = (b < 0) THEN a < b ELSE b < 0

\* u64::wrapping_add(1)
wrapping_add(frames) == frames + 1

\* u64::saturating_add(1)
saturating_add(frames) == IF frames = U64Max THEN U64Max ELSE frames + 1

\* The map forgets its other keys.
Insert_alone(map, key, value) == [k \in {key} |-> value]

\* A map after insert(key, value)
Insert(map, key, value) ==
    [k \in DOMAIN map \cup {key} |-> IF k = key THEN value ELSE map[k]]

EmptyMap == [k \in {} |-> None]

\* observe storing the call's rssi, ssid and channel whether supplied or not
observe_all(dev, scache, ccache, t, mac, bssid, role, rssi_dbm, ssid, channel) ==
    LET e0 == IF mac \in DOMAIN dev
              THEN dev[mac]
              ELSE [mac |-> mac, bssid |-> bssid, role |-> "Unknown",
                    last_seen |-> t, last_rssi |-> None, frames |-> 0,
                    ssid |-> None, channel |-> None]
        e1 == [e0 EXCEPT !.last_seen = t, !.frames = saturating_add(@),
                         !.last_rssi = rssi_dbm,
                         !.bssid = IF IsSome(bssid) THEN bssid ELSE @,
                         !.role = merge_role(@, role),
                         !.ssid = ssid, !.channel = channel]
        sc == IF IsSome(ssid) /\ IsSome(bssid)
              THEN Insert(scache, Unwrap(bssid), Unwrap(ssid))
              ELSE scache
        cc == IF IsSome(channel) /\ IsSome(bssid)
              THEN Insert(ccache, Unwrap(bssid), Unwrap(channel))
              ELSE ccache
    IN  [devices |-> Insert(dev, mac, e1), ssid_cache |-> sc,
         channel_cache |-> cc]

\* DeviceTracker::observe at instant t: the devices map and the two caches
\* after the call.  The devices write lock is held from line 63 to the end.
observe(dev, scache, ccache, t, mac, bssid, role, rssi_dbm, ssid, channel) ==
    LET e0 == IF mac \in DOMAIN dev
              THEN dev[mac]
              ELSE [mac |-> mac, bssid |-> bssid, role |-> "Unknown",
                    last_seen |-> t, last_rssi |-> None, frames |-> 0,
                    ssid |-> None, channel |-> None]
        e1 == [e0 EXCEPT !.last_seen = t, !.frames = saturating_add(@)]
        e2 == IF IsSome(rssi_dbm) THEN [e1 EXCEPT !.last_rssi = rssi_dbm] ELSE e1
        e3 == IF IsSome(bssid) THEN [e2 EXCEPT !.bssid = bssid] ELSE e2
        e4 == [e3 EXCEPT !.role = merge_role(@, role)]
        e5 == IF IsSome(ssid)
              THEN [e4 EXCEPT !.ssid = ssid]
              ELSE IF IsSome(bssid) /\ ~IsSome(e4.ssid)
                      /\ Unwrap(bssid) \in DOMAIN scache
                   THEN [e4 EXCEPT !.ssid = Some(scache[Unwrap(bssid)])]
                   ELSE e4
        sc == IF IsSome(ssid) /\ IsSome(bssid)
              THEN Insert(scache, Unwrap(bssid), Unwrap(ssid))
              ELSE scache
        e6 == IF IsSome(channel)
              THEN [e5 EXCEPT !.channel = channel]
              ELSE IF ~IsSome(e5.channel) /\ IsSome(bssid)
                      /\ Unwrap(bssid) \in DOMAIN ccache
                   THEN [e5 EXCEPT !.channel = Some(ccache[Unwrap(bssid)])]
                   ELSE e5
        cc == IF IsSome(channel) /\ IsSome(bssid)
              THEN Insert(ccache, Unwrap(bssid), Unwrap(channel))
              ELSE ccache
    IN  [devices |-> Insert(dev, mac, e6), ssid_cache |-> sc,
         channel_cache |-> cc]

\* The comparator of snapshot's sort_by with the frame counts compared
\* ascending
CmpAscending(a, b) ==
    IF role_rank(a.role) < role_rank(b.role) THEN "Less"
    ELSE IF role_rank(a.role) > role_rank(b.role) THEN "Greater"
    ELSE IF U64Less(a.frames, b.frames) THEN "Less"
    ELSE IF U64Less(b.frames, a.frames) THEN "Greater"
    ELSE "Equal"

\* The comparator of snapshot's sort_by
Cmp(a, b) ==
    IF role_rank(a.role) < role_rank(b.role) THEN "Less"
    ELSE IF role_rank(a.role) > role_rank(b.role) THEN "Greater"
    ELSE IF U64Less(b.frames, a.frames) THEN "Less"
    ELSE IF U64Less(a.frames, b.frames) THEN "Greater"
    ELSE "Equal"

\* slice::sort_by is a stable sort: an element is placed after the elements
\* that do not compare Greater than it.
RECURSIVE sort_by(_)
sort_by(list) ==
    IF Len(list) <= 1
    THEN list
    ELSE LET x == list[Len(list)]
             front == sort_by(SubSeq(list, 1, Len(list) - 1))
             keep == {i \in 1..Len(front) : Cmp(front[i], x) # "Greater"}
             n == IF keep = {} THEN 0
                  ELSE CHOOSE i \in keep : \A j \in keep : j <= i
         IN  SubSeq(front, 1, n) \o <<x>> \o SubSeq(front, n + 1, Len(front))

\* The orders in which HashMap::values() can yield the devices.
Orders(S) ==
    {f \in [1..Cardinality(S) -> S] : \A i, j \in DOMAIN f : f[i] = f[j] => i = j}

\* The stored value alone, without the cache.
or_else_none(own, b, cache) == own

\* own.or_else(|| dev.bssid.and_then(|b| cache.get(&b)))
or_else_cached(own, b, cache) ==
    IF IsSome(own) THEN own
    ELSE IF IsSome(b) /\ Unwrap(b) \in DOMAIN cache
         THEN Some(cache[Unwrap(b)]) ELSE None

\* DeviceTracker::snapshot at instant t, the map iterated in the given order
snapshot(dev, blk, scache, ccache, t, win, order) ==
    LET view(m) ==
            LET d == dev[m]
                age == t - d.last_seen
                b == d.bssid
            IN  [mac |-> format_mac(d.mac),
                 bssid |-> IF IsSome(b) THEN Some(format_mac(Unwrap(b))) ELSE None,
                 role |-> d.role,
                 age_ms |-> age,
                 rssi_dbm |-> d.last_rssi,
                 frames |-> d.frames,
                 allowed |-> ~(d.mac \in blk),
                 ssid |-> or_else_cached(d.ssid, b, scache),
                 channel |-> or_else_cached(d.channel, b, ccache)]
        kept == SelectSeq(order, LAMBDA m : ~(t - dev[m].last_seen > win))
    IN  sort_by([i \in 1..Len(kept) |-> view(kept[i])])

\* Only the source address is looked up.
allows_src_only(blk, src, bssid) ==
    ~(IsSome(src) /\ Unwrap(src) \in blk)

\* DeviceTracker::allows
allows(blk, src, bssid) ==
    IF IsSome(src) /\ Unwrap(src) \in blk THEN FALSE
    ELSE IF IsSome(bssid) /\ Unwrap(bssid) \in blk THEN FALSE
    ELSE TRUE

\* Only the first toggle of the list is applied.
set_many_head(blk, toggles) ==
    IF toggles = <<>> THEN blk
    ELSE IF toggles[1][2] THEN blk \ {toggles[1][1]}
    ELSE blk \cup {toggles[1][1]}

\* DeviceTracker::set_many: the toggles applied in order
RECURSIVE set_many(_, _)
set_many(blk, toggles) ==
    IF toggles = <<>>
    THEN blk
    ELSE LET mac == toggles[1][1]
             allowed == toggles[1][2]
         IN  set_many(IF allowed THEN blk \ {mac} ELSE blk \cup {mac},
                      Tail(toggles))

\* The last RSSI is forgotten with the count.
reset_counts_rssi(dev) ==
    [m \in DOMAIN dev |-> [dev[m] EXCEPT !.frames = 0, !.last_rssi = None]]

\* DeviceTracker::reset_counts
reset_counts(dev) == [m \in DOMAIN dev |-> [dev[m] EXCEPT !.frames = 0]]

\* DeviceTracker::new()
\* The threads that call the tracker: the capture thread (observe), the
\* consumer task (allows) and two web handlers (snapshot, set_many,
\* reset_counts).
Threads == {"sniffer", "consumer", "web1", "web2"}

WebThreads == {"web1", "web2"}

\* The RwLocks of the DeviceTracker, in the order of its fields.
LockNames == <<"devices", "blocked", "ssid_cache", "channel_cache">>

\* A thread outside the tracker, after n calls
Idle(n) == [pc |-> "idle", n |-> n]

\* The clones of the AudioHandle that play
Handles == {"h1", "h2"}

\* AudioEngine::new: no clone is inside play and nothing was played or popped.
HandlesInit ==
    /\ handles = [h \in Handles |-> [pc |-> "idle"]]
    /\ hist = [order |-> <<>>, popped |-> <<>>, n |-> 0]

\* DeviceTracker::new: no lock is held and no call is under way.
LocksInit ==
    /\ locks = [l \in {LockNames[i] : i \in 1..Len(LockNames)} |->
                  [writer |-> None, readers |-> {}]]
    /\ calls = [t \in Threads |-> Idle(0)]

TrackerInit ==
    /\ devices = EmptyMap
    /\ blocked = {}
    /\ ssid_cache = EmptyMap
    /\ channel_cache = EmptyMap

(***************************************************************************)
(* events.rs                                                               *)
(***************************************************************************)
EventKinds ==
    {"Beacon", "ProbeReq", "ProbeResp", "Assoc", "Deauth", "Eapol",
     "Rts", "Cts", "Ack", "DataTick"}

NoiseModes == {"Crowded", "Sparse"}

\* main.rs: EventWindow::new(Duration::from_millis(100))
WindowMs == 100

\* EventWindow::new(window), created at instant t
NewWindow(t) ==
    [start |-> t, counts_mgmt |-> 0, counts_ctrl |-> 0, counts_data |-> 0,
     window |-> WindowMs]

\* refresh restarting the window only after more than its duration
refresh_late(w, t) ==
    IF t - w.start > w.window
    THEN [w EXCEPT !.start = t, !.counts_mgmt = 0, !.counts_ctrl = 0,
                   !.counts_data = 0]
    ELSE w

\* EventWindow::refresh at instant t
refresh(w, t) ==
    IF t - w.start >= w.window
    THEN [w EXCEPT !.start = t, !.counts_mgmt = 0, !.counts_ctrl = 0,
                   !.counts_data = 0]
    ELSE w

\* The arm of try_count's match that a kind takes.
Bucket(kind) ==
    IF kind \in {"Beacon", "ProbeReq", "ProbeResp", "Assoc", "Deauth", "Eapol"}
    THEN "mgmt"
    ELSE IF kind \in {"Rts", "Cts", "Ack"} THEN "ctrl" ELSE "data"

\* try_count comparing each count with > where the code has >=
try_count_over(w, t, kind, max_mgmt, max_ctrl, max_data) ==
    LET r == IF t - w.start >= w.window
             THEN [w EXCEPT !.start = t, !.counts_mgmt = 0, !.counts_ctrl = 0,
                            !.counts_data = 0]
             ELSE w
    IN  CASE kind \in {"Beacon", "ProbeReq", "ProbeResp", "Assoc", "Deauth",
                       "Eapol"} ->
               IF r.counts_mgmt > max_mgmt
               THEN [ok |-> FALSE, w |-> r]
               ELSE [ok |-> TRUE, w |-> [r EXCEPT !.counts_mgmt = @ + 1]]
          [] kind \in {"Rts", "Cts", "Ack"} ->
               IF r.counts_ctrl > max_ctrl
               THEN [ok |-> FALSE, w |-> r]
               ELSE [ok |-> TRUE, w |-> [r EXCEPT !.counts_ctrl = @ + 1]]
          [] kind = "DataTick" ->
               IF r.counts_data > max_data
               THEN [ok |-> FALSE, w |-> r]
               ELSE [ok |-> TRUE, w |-> [r EXCEPT !.counts_data = @ + 1]]

\* EventWindow::try_count at instant t: the value returned and the window after
\* An event under the cap passes without being counted.
try_count_free(w, t, kind, max_mgmt, max_ctrl, max_data) ==
    LET r == refresh(w, t)
        full == CASE Bucket(kind) = "mgmt" -> r.counts_mgmt >= max_mgmt
                  [] Bucket(kind) = "ctrl" -> r.counts_ctrl >= max_ctrl
                  [] Bucket(kind) = "data" -> r.counts_data >= max_data
    IN  [ok |-> ~full, w |-> r]

try_count(w, t, kind, max_mgmt, max_ctrl, max_data) ==
    LET r == refresh(w, t)
    IN  CASE Bucket(kind) = "mgmt" ->
               IF r.counts_mgmt >= max_mgmt
               THEN [ok |-> FALSE, w |-> r]
               ELSE [ok |-> TRUE, w |-> [r EXCEPT !.counts_mgmt = @ + 1]]
          [] Bucket(kind) = "ctrl" ->
               IF r.counts_ctrl >= max_ctrl
               THEN [ok |-> FALSE, w |-> r]
               ELSE [ok |-> TRUE, w |-> [r EXCEPT !.counts_ctrl = @ + 1]]
          [] Bucket(kind) = "data" ->
               IF r.counts_data >= max_data
               THEN [ok |-> FALSE, w |-> r]
               ELSE [ok |-> TRUE, w |-> [r EXCEPT !.counts_data = @ + 1]]

\* allow denying a call made exactly min_gap after the last allowed one
allow_le(l, t, kind, key, min_gap) ==
    LET entry_key == <<kind, key>>
    IN  IF entry_key \in DOMAIN l
        THEN IF t - l[entry_key] <= min_gap
             THEN [ok |-> FALSE, l |-> l]
             ELSE [ok |-> TRUE, l |-> [l EXCEPT ![entry_key] = t]]
        ELSE [ok |-> TRUE,
              l |-> [k \in DOMAIN l \cup {entry_key} |->
                       IF k = entry_key THEN t ELSE l[k]]]

\* RateLimiter::allow at instant t: the value returned and the map after.
\* last_seen is a function from the (kind, key) pairs inserted so far.
\* A denied call stamps the entry too.
allow_push(l, t, kind, key, min_gap) ==
    LET entry_key == <<kind, key>>
    IN  IF entry_key \in DOMAIN l
        THEN [ok |-> ~(t - l[entry_key] < min_gap),
              l |-> [l EXCEPT ![entry_key] = t]]
        ELSE [ok |-> TRUE,
              l |-> [k \in DOMAIN l \cup {entry_key} |->
                       IF k = entry_key THEN t ELSE l[k]]]

allow(l, t, kind, key, min_gap) ==
    LET entry_key == <<kind, key>>
    IN  IF entry_key \in DOMAIN l
        THEN IF t - l[entry_key] < min_gap
             THEN [ok |-> FALSE, l |-> l]
             ELSE [ok |-> TRUE, l |-> [l EXCEPT ![entry_key] = t]]
        ELSE [ok |-> TRUE,
              l |-> [k \in DOMAIN l \cup {entry_key} |->
                       IF k = entry_key THEN t ELSE l[k]]]

\* RateLimiter::new()
NewLimiter == [k \in {} |-> 0]

(***************************************************************************)
(* main.rs: the tables of the consumer loop                                *)
(***************************************************************************)
\* let (max_mgmt, max_ctrl, max_data) = match settings.mode
WindowCaps(mode) ==
    IF mode = "Crowded" THEN <<3, 2, 1>> ELSE <<5, 3, 1>>

min_interval_for(kind, mode) ==
    CASE kind = "Beacon"    -> 333
      [] kind = "ProbeReq"  -> 200
      [] kind = "ProbeResp" -> 200
      [] kind = "Assoc"     -> 500
      [] kind = "Deauth"    -> 500
      [] kind = "Eapol"     -> 300
      [] kind \in {"Rts", "Cts"} -> 150
      [] kind = "Ack"       -> IF mode = "Crowded" THEN 80 ELSE 40
      [] kind = "DataTick"  -> 200

(***************************************************************************)
(* The clock.  Time passes between calls, in the steps a specification     *)
(* names.                                                                  *)
(***************************************************************************)
Tick(d) ==
    /\ now + d <= MaxTime
    /\ now' = now + d

\* Time passes and nothing else happens.
ClockTick(d) ==
    /\ Tick(d)
    /\ UNCHANGED <<audioVars, shaperVars, historyVars, settings, flagVars,
                   trackerVars, pipeVars, lockVars, handleVars>>

(***************************************************************************)
(* EventWindow on its own: try_count called at any instant, with the caps  *)
(* of either mode or the caps (2,1,1).                                     *)
(***************************************************************************)
CapsInputs == {<<2, 1, 1>>} \cup {WindowCaps(m) : m \in NoiseModes}

WindowSteps == {WindowMs - 1, WindowMs}

CallTryCount(kind, caps) ==
    LET r == try_count(window, now, kind, caps[1], caps[2], caps[3])
    IN  /\ window' = r.w
        /\ call' = [op |-> "try_count", kind |-> kind, caps |-> caps,
                    at |-> now, ok |-> r.ok]
        /\ UNCHANGED <<now, limiter, passLog, allowedAt>>
        /\ UNCHANGED <<audioVars, pipeVars, settings, flagVars, trackerVars>>
        /\ UNCHANGED <<lockVars, handleVars>>

NoCall == [op |-> "none"]

Buckets == {"mgmt", "ctrl", "data"}

\* EventSettings::default()
DefaultSettings ==
    [mode |-> "Crowded", enabled |-> [k \in EventKinds |-> TRUE]]

\* main.rs 35-37: the three AtomicBool flags
FlagsInit ==
    /\ audio_enabled = TRUE
    /\ web_sound_enabled = FALSE
    /\ volume_by_signal = FALSE

\* main.rs 49, 66, 38: the channel is empty, data_counter is 0, the consumer
\* is at packet_rx.recv() and nothing was broadcast.
PipeInit ==
    /\ packet_rx = <<>>
    /\ data_counter = 0
    /\ cons = [pc |-> "recv"]
    /\ packet_notifier = <<>>
    \* one websocket client has subscribed
    /\ listeners = 1
    /\ sniffer = [pc |-> "next_packet", frame |-> None, fn |-> "run",
                  opens |-> 1]

ShaperInit ==
    /\ now = 0
    /\ window = NewWindow(0)
    /\ limiter = NewLimiter
    /\ call = NoCall
    /\ passLog = [b \in Buckets |-> <<>>]
    /\ allowedAt = NewLimiter

WindowInit ==
    /\ LocksInit /\ HandlesInit
    /\ AudioInit /\ ShaperInit /\ FlagsInit /\ TrackerInit /\ PipeInit
    /\ settings = DefaultSettings

WindowNext ==
    \/ \E d \in WindowSteps : ClockTick(d)
    \/ \E kind \in EventKinds, caps \in CapsInputs : CallTryCount(kind, caps)

WindowSpec == WindowInit /\ [][WindowNext]_vars

(***************************************************************************)
(* The window gate as the consumer loop calls it (main.rs 89-96): the caps *)
(* are those of settings.mode.  The mode is either one and stays.  passLog *)
(* keeps, per bucket, the instants of the passes of the last WindowMs      *)
(* milliseconds, the interval (now - WindowMs, now].                       *)
(***************************************************************************)
Recent(log, t) == SelectSeq(log, LAMBDA x : t - x < WindowMs)

CallWindowGate(kind) ==
    LET caps == WindowCaps(settings.mode)
        r == try_count(window, now, kind, caps[1], caps[2], caps[3])
    IN  /\ window' = r.w
        /\ call' = [op |-> "gate", ok |-> r.ok]
        /\ passLog' = IF r.ok
                      THEN [passLog EXCEPT ![Bucket(kind)] = Append(@, now)]
                      ELSE passLog
        /\ UNCHANGED <<now, limiter, allowedAt>>
        /\ UNCHANGED <<audioVars, pipeVars, settings, flagVars, trackerVars>>
        /\ UNCHANGED <<lockVars, handleVars>>

GateTick(d) ==
    /\ Tick(d)
    /\ passLog' = [b \in Buckets |-> Recent(passLog[b], now + d)]
    /\ UNCHANGED <<window, limiter, call, allowedAt>>
    /\ UNCHANGED <<audioVars, pipeVars, settings, flagVars, trackerVars>>
    /\ UNCHANGED <<lockVars, handleVars>>

GateInit ==
    /\ LocksInit /\ HandlesInit
    /\ AudioInit /\ ShaperInit /\ FlagsInit /\ TrackerInit /\ PipeInit
    /\ settings \in {[DefaultSettings EXCEPT !.mode = m] : m \in NoiseModes}

GateNext ==
    \/ \E d \in WindowSteps : GateTick(d)
    \/ \E kind \in EventKinds : CallWindowGate(kind)

GateSpec == GateInit /\ [][GateNext]_vars

(***************************************************************************)
(* RateLimiter on its own: allow called at any instant for a few (kind,    *)
(* key) pairs, with the gap main.rs passes for the kind under either mode. *)
(***************************************************************************)
KeyNone == <<"None">>
KeyTx(m) == <<"Tx", m>>
KeyBssid(m) == <<"Bssid", m>>
KeyPair(a, b) == <<"Pair", a, b>>

LimiterCalls ==
    {<<"Ack", KeyNone>>, <<"Ack", KeyTx(M1)>>, <<"Rts", KeyNone>>}

\* One millisecond short of the smallest gap, and the smallest gap.
LimiterSteps == {39, 40}

CallAllow(kind, key, mode) ==
    LET gap == min_interval_for(kind, mode)
        r == allow(limiter, now, kind, key, gap)
        k == <<kind, key>>
    IN  /\ limiter' = r.l
        /\ call' = [op |-> "allow", kind |-> kind, key |-> key, gap |-> gap,
                    at |-> now, ok |-> r.ok,
                    prev |-> IF k \in DOMAIN allowedAt THEN allowedAt[k] ELSE -1]
        /\ allowedAt' = IF r.ok
                        THEN [x \in DOMAIN allowedAt \cup {k} |->
                                IF x = k THEN now ELSE allowedAt[x]]
                        ELSE allowedAt
        /\ UNCHANGED <<now, window, passLog>>
        /\ UNCHANGED <<audioVars, pipeVars, settings, flagVars, trackerVars>>
        /\ UNCHANGED <<lockVars, handleVars>>

LimiterNext ==
    \/ \E d \in LimiterSteps : ClockTick(d)
    \/ \E c \in LimiterCalls, mode \in NoiseModes : CallAllow(c[1], c[2], mode)

LimiterSpec == WindowInit /\ [][LimiterNext]_vars

(***************************************************************************)
(* DeviceTracker on its own: observe, snapshot, allows, set_many and       *)
(* reset_counts called in any order, each call holding its locks from      *)
(* start to end.                                                           *)
(***************************************************************************)
CallObserve(mac, bssid, role, rssi_dbm, ssid, channel) ==
    LET r == observe(devices, ssid_cache, channel_cache, now, mac, bssid, role,
                     rssi_dbm, ssid, channel)
    IN  /\ mac \in DOMAIN devices => devices[mac].frames < MaxFrames
        /\ devices' = r.devices
        /\ ssid_cache' = r.ssid_cache
        /\ channel_cache' = r.channel_cache
        /\ call' = [op |-> "observe", mac |-> mac,
                    current |-> IF mac \in DOMAIN devices
                                THEN devices[mac].role ELSE "Unknown",
                    hint |-> role,
                    role |-> r.devices[mac].role,
                    frames |-> IF mac \in DOMAIN devices
                               THEN devices[mac].frames ELSE 0,
                    bssid |-> bssid, rssi_dbm |-> rssi_dbm, ssid |-> ssid,
                    channel |-> channel]
        /\ UNCHANGED <<blocked, now, window, limiter, passLog, allowedAt>>
        /\ UNCHANGED <<audioVars, pipeVars, lockVars, handleVars, settings, flagVars>>

CallSnapshot(win) ==
    /\ \E order \in Orders(DOMAIN devices) :
          call' = [op |-> "snapshot", window |-> win,
                   list |-> snapshot(devices, blocked, ssid_cache,
                                     channel_cache, now, win, order)]
    /\ UNCHANGED <<trackerVars, now, window, limiter, passLog, allowedAt>>
    /\ UNCHANGED <<audioVars, pipeVars, lockVars, handleVars, settings, flagVars>>

CallAllows(src, bssid) ==
    /\ call' = [op |-> "allows", src |-> src, bssid |-> bssid,
                blocked |-> blocked, ok |-> allows(blocked, src, bssid)]
    /\ UNCHANGED <<trackerVars, now, window, limiter, passLog, allowedAt>>
    /\ UNCHANGED <<audioVars, pipeVars, lockVars, handleVars, settings, flagVars>>

CallSetMany(toggles) ==
    /\ blocked' = set_many(blocked, toggles)
    /\ call' = [op |-> "set_many", toggles |-> toggles]
    /\ UNCHANGED <<devices, ssid_cache, channel_cache, now, window, limiter,
                   passLog, allowedAt>>
    /\ UNCHANGED <<audioVars, pipeVars, lockVars, handleVars, settings, flagVars>>

CallResetCounts ==
    /\ devices' = reset_counts(devices)
    /\ call' = [op |-> "reset_counts"]
    /\ UNCHANGED <<blocked, ssid_cache, channel_cache, now, window, limiter,
                   passLog, allowedAt>>
    /\ UNCHANGED <<audioVars, pipeVars, lockVars, handleVars, settings, flagVars>>

TrackerTick(d) ==
    /\ now + d <= MaxAge
    /\ now' = now + d
    /\ UNCHANGED <<trackerVars, window, limiter, historyVars>>
    /\ UNCHANGED <<audioVars, pipeVars, lockVars, handleVars, settings, flagVars>>

\* web.rs: window_from_query clamps the window to 60 .. 7200 seconds.
SnapshotWindows == {60000}
TrackerSteps == {60001}
TrackerMacs == {M1, M2}
OptMacs(S) == {None} \cup {Some(m) : m \in S}

\* The toggle lists of an update_device_filters request, up to two toggles.
Toggles(S) ==
    LET one == S \X BOOLEAN
    IN  {<<x>> : x \in one} \cup {<<x, y>> : x \in one, y \in one}

TrackerNext ==
    \/ \E mac \in TrackerMacs, bssid \in OptMacs({M1}), role \in DeviceRoles :
           CallObserve(mac, bssid, role, None, None, None)
    \/ \E win \in SnapshotWindows : CallSnapshot(win)
    \/ \E src \in OptMacs(TrackerMacs), bssid \in OptMacs(TrackerMacs) :
           CallAllows(src, bssid)
    \/ \E toggles \in Toggles({M1}) : CallSetMany(toggles)
    \/ CallResetCounts
    \/ \E d \in TrackerSteps : TrackerTick(d)

TrackerSpec == WindowInit /\ [][TrackerNext]_vars

(***************************************************************************)
(* The snapshot order: three devices observed without a BSSID at one       *)
(* instant, so that the snapshot holds up to three entries.                *)
(***************************************************************************)
SortMacs == {M1, M2, M3}

SortNext ==
    \/ \E mac \in SortMacs, role \in DeviceRoles :
           CallObserve(mac, None, role, None, None, None)
    \/ \E win \in SnapshotWindows : CallSnapshot(win)
    \/ CallResetCounts

SortSpec == WindowInit /\ [][SortNext]_vars

(***************************************************************************)
(* The tracker with tagged frames: a beacon of the access point M1 that    *)
(* carries an SSID and a channel, the same beacon renamed, and frames of   *)
(* the station M2 with and without a BSSID, an RSSI, an SSID and a         *)
(* channel.  The clock steps by one window and by a millisecond more.      *)
(***************************************************************************)
CacheFrames ==
    {<<M1, Some(M1), "Ap", Some(-40), Some("a"), Some(6)>>,
     <<M1, Some(M1), "Ap", None, Some("b"), None>>,
     <<M2, Some(M1), "Client", None, None, None>>,
     <<M2, None, "Unknown", Some(-60), None, Some(11)>>,
     <<M2, Some(M2), "Ap", None, Some("c"), None>>}

CacheSteps == {60000, 60001}

CacheNext ==
    \/ \E f \in CacheFrames : CallObserve(f[1], f[2], f[3], f[4], f[5], f[6])
    \/ \E win \in SnapshotWindows : CallSnapshot(win)
    \/ \E toggles \in Toggles({M2}) : CallSetMany(toggles)
    \/ CallResetCounts
    \/ \E d \in CacheSteps : TrackerTick(d)

CacheSpec == WindowInit /\ [][CacheNext]_vars

(***************************************************************************)
(* The blocklist on its own: toggle lists over three addresses and allows. *)
(***************************************************************************)
FilterNext ==
    \/ \E toggles \in Toggles(SortMacs) : CallSetMany(toggles)
    \/ \E src \in OptMacs(TrackerMacs), bssid \in OptMacs(TrackerMacs) :
           CallAllows(src, bssid)

FilterSpec == WindowInit /\ [][FilterNext]_vars

(***************************************************************************)
(* The frame counter: devices counted from their creation, and a device    *)
(* whose count is two short of u64::MAX.                                   *)
(***************************************************************************)
CounterInit ==
    /\ LocksInit /\ HandlesInit
    /\ AudioInit /\ ShaperInit /\ FlagsInit /\ PipeInit
    /\ settings = DefaultSettings
    /\ blocked = {}
    /\ ssid_cache = EmptyMap
    /\ channel_cache = EmptyMap
    /\ devices \in
           {EmptyMap,
            Insert(EmptyMap, M1,
                   [mac |-> M1, bssid |-> None, role |-> "Unknown",
                    last_seen |-> 0, last_rssi |-> None,
                    frames |-> U64Max - 2, ssid |-> None, channel |-> None])}

CounterNext ==
    \/ \E mac \in TrackerMacs : CallObserve(mac, None, "Unknown", None, None, None)
    \/ CallResetCounts
    \/ \E d \in TrackerSteps : TrackerTick(d)

CounterSpec == CounterInit /\ [][CounterNext]_vars

(***************************************************************************)
(* The sample queue on its own: play and the callback run concurrently.    *)
(***************************************************************************)
AudioSpecNext ==
    \/ \E id \in AudioIds, r \in BOOLEAN, g \in Gains : PlayCall(id, r, g)
    \/ PlayLock
    \/ PlaySound
    \/ PlayGlitch
    \/ PlayUnlock
    \/ \E n \in 1..MaxSlots : CallbackInvoke(n)
    \/ PopLock
    \/ PopWake
    \/ PopFront

AudioSpec == WindowInit /\ [][AudioSpecNext]_vars

(***************************************************************************)
(* main.rs: the consumer loop, fed by the sniffer and steered by the web   *)
(* handlers.                                                               *)
(***************************************************************************)
\* A full channel holds MaxPending events; the sniffer sends DataTicks while
\* data_counter is below MaxCounter; the broadcast channel keeps MaxNotify
\* events for a subscriber.
MaxPending == 1
MaxCounter == 10
MaxNotify == 1

sound_for(kind) ==
    CASE kind = "Beacon"    -> "BeaconTick"
      [] kind = "ProbeReq"  -> "ProbeChirp"
      [] kind = "ProbeResp" -> "ProbeReply"
      [] kind = "Assoc"     -> "AssocUp"
      [] kind = "Deauth"    -> "DeauthZap"
      [] kind = "Eapol"     -> "EapolMotif"
      [] kind = "Rts"       -> "RtsKnock"
      [] kind = "Cts"       -> "CtsKnockback"
      [] kind = "Ack"       -> "AckClick"
      [] kind = "DataTick"  -> "DataTick"

\* Every kind counts as enabled.
kind_enabled_always(cs, kind) == TRUE

\* *settings.enabled.get(&evt.kind).unwrap_or(&true)
\* The toggle of the data ticks is not consulted.
kind_enabled_data(cs, kind) ==
    kind = "DataTick" \/ (IF kind \in DOMAIN cs.enabled THEN cs.enabled[kind]
                          ELSE TRUE)

kind_enabled(cs, kind) ==
    IF kind \in DOMAIN cs.enabled THEN cs.enabled[kind] ELSE TRUE

\* let threshold = match settings.mode
Threshold(mode) == IF mode = "Crowded" THEN 100 ELSE 10

\* The counter keeps counting after a pass.
aggregate_keep(counter, mode) ==
    IF counter + 1 < Threshold(mode)
    THEN [ok |-> FALSE, counter |-> counter + 1]
    ELSE [ok |-> TRUE, counter |-> counter + 1]

\* Data tick aggregation: data_counter += 1; below the threshold the event is
\* dropped, otherwise it passes and the counter is reset.
\* Only the tick that brings the counter to the threshold passes.
aggregate_exact(counter, mode) ==
    IF counter + 1 # Threshold(mode)
    THEN [ok |-> FALSE, counter |-> counter + 1]
    ELSE [ok |-> TRUE, counter |-> 0]

\* The tick that passes leaves the counter as it found it.
aggregate_hold(counter, mode) ==
    IF counter + 1 < Threshold(mode)
    THEN [ok |-> FALSE, counter |-> counter + 1]
    ELSE [ok |-> TRUE, counter |-> counter]

aggregate(counter, mode) ==
    IF counter + 1 < Threshold(mode)
    THEN [ok |-> FALSE, counter |-> counter + 1]
    ELSE [ok |-> TRUE, counter |-> 0]

\* AudioHandle::play from lock to unlock, over a queue nobody else holds: the
\* scaled sound, then the scaled glitch when overlay_retry is set.
play(q, id, overlay_retry, gain) ==
    q \o Scaled(Palette(id), gain)
      \o (IF overlay_retry THEN Scaled(Palette("RetryGlitch"), gain) ELSE <<>>)

\* A full channel keeps what it holds and takes no event.
notifier_send_keep(ch, n, evt) ==
    IF n = 0 \/ Len(ch) >= MaxNotify THEN ch ELSE Append(ch, evt)

\* broadcast::Sender::send with n receivers: without a receiver the event is
\* dropped and the error ignored; otherwise it is kept for the subscriber,
\* and the oldest one is overwritten when the channel is full.
notifier_send(ch, n, evt) ==
    IF n = 0 THEN ch
    ELSE IF Len(ch) >= MaxNotify THEN Append(Tail(ch), evt)
    ELSE Append(ch, evt)

\* The PacketEvents the sniffer classifies frames into: an acknowledgement,
\* which carries neither address, and a retried data frame of the station M2
\* in the network of M1.
EvAck ==
    [kind |-> "Ack", rate_key |-> KeyNone, retry |-> FALSE,
     amplitude |-> 1000, src |-> None, bssid |-> None]

EvData ==
    [kind |-> "DataTick", rate_key |-> KeyNone, retry |-> TRUE,
     amplitude |-> 500, src |-> Some(M2), bssid |-> Some(M1)]

PipeEvents == {EvAck, EvData}

\* The five gates, in the order of the loop body.
GateOrder == <<"allows", "enabled", "aggregation", "try_count", "allow">>

\* sniffer.rs: let _ = tx.send(evt)
SnifferSend(evt) ==
    /\ Len(packet_rx) < MaxPending
    /\ evt.kind = "DataTick" => data_counter < MaxCounter
    /\ packet_rx' = Append(packet_rx, evt)
    /\ UNCHANGED <<data_counter, cons, packet_notifier, listeners, sniffer>>
    /\ UNCHANGED <<lockVars, handleVars>>
    /\ UNCHANGED <<audioVars, now, shaperVars, historyVars, settings, flagVars,
                   trackerVars>>

\* The consumer takes the event sent last.
ConsumerRecv_last ==
    /\ cons.pc = "recv"
    /\ packet_rx # <<>>
    /\ packet_rx' = SubSeq(packet_rx, 1, Len(packet_rx) - 1)
    /\ LET evt == packet_rx[Len(packet_rx)]
       IN  IF allows(blocked, evt.src, evt.bssid)
           THEN /\ cons' = [pc |-> "settings", evt |-> Some(evt),
                            blocked |-> blocked]
                /\ UNCHANGED call
           ELSE /\ cons' = [pc |-> "recv", evt |-> None, blocked |-> {}]
                /\ call' = [op |-> "consume", evt |-> evt, blocked |-> blocked,
                            gates |-> <<FALSE>>, played |-> FALSE,
                            notified |-> FALSE]
    /\ UNCHANGED <<data_counter, packet_notifier, sniffer, passLog, allowedAt>>
    /\ UNCHANGED <<listeners, lockVars, handleVars>>
    /\ UNCHANGED <<audioVars, now, shaperVars, settings, flagVars, trackerVars>>

\* packet_rx.recv().await and gate 1: a blocked event is dropped and the loop
\* is back at recv; an allowed one goes on to read the settings.  call.gates
\* lists the results of the gates the event went through, in order, and
\* call.blocked is the blocklist gate 1 read.
ConsumerRecv ==
    /\ cons.pc = "recv"
    /\ packet_rx # <<>>
    /\ packet_rx' = Tail(packet_rx)
    /\ LET evt == Head(packet_rx)
       IN  IF allows(blocked, evt.src, evt.bssid)
           THEN /\ cons' = [pc |-> "settings", evt |-> Some(evt),
                            blocked |-> blocked]
                /\ UNCHANGED call
           ELSE /\ cons' = [pc |-> "recv", evt |-> None, blocked |-> {}]
                /\ call' = [op |-> "consume", evt |-> evt, blocked |-> blocked,
                            gates |-> <<FALSE>>, played |-> FALSE,
                            notified |-> FALSE]
    /\ UNCHANGED <<data_counter, packet_notifier, sniffer, passLog, allowedAt>>
    /\ UNCHANGED <<listeners, lockVars, handleVars>>
    /\ UNCHANGED <<audioVars, now, shaperVars, settings, flagVars, trackerVars>>

\* The rest of the loop body: the settings are cloned, gates 2 to 5 follow
\* without an await, and an event that passed them is played and broadcast as
\* the three flags say.  call keeps the number of receivers and of events
\* kept in the broadcast channel as the loop body found them.
\* The gain is the amplitude of the event whatever the flag says.
dispatch_gain_signal(by_signal, amplitude) == amplitude

\* The gain handed to play: the amplitude of the event when the volume follows
\* the signal, 1.0 otherwise.
dispatch_gain(by_signal, amplitude) == IF by_signal THEN amplitude ELSE 1000

ConsumerAdmit ==
    /\ cons.pc = "settings"
    /\ LET evt == Unwrap(cons.evt)
           cs == settings
           g2 == kind_enabled(cs, evt.kind)
           ag == IF evt.kind = "DataTick"
                 THEN aggregate(data_counter, cs.mode)
                 ELSE [ok |-> TRUE, counter |-> data_counter]
           caps == WindowCaps(cs.mode)
           tc == try_count(window, now, evt.kind, caps[1], caps[2], caps[3])
           min_gap == min_interval_for(evt.kind, cs.mode)
           al == allow(limiter, now, evt.kind, evt.rate_key, min_gap)
           gates == IF ~g2 THEN <<TRUE, FALSE>>
                    ELSE IF ~ag.ok THEN <<TRUE, TRUE, FALSE>>
                    ELSE IF ~tc.ok THEN <<TRUE, TRUE, TRUE, FALSE>>
                    ELSE <<TRUE, TRUE, TRUE, TRUE, al.ok>>
           pass == Len(gates) = 5 /\ al.ok
           gain == dispatch_gain(volume_by_signal, evt.amplitude)
       IN  /\ (pass /\ audio_enabled) => Len(queue) <= MaxQueue
           /\ data_counter' = IF g2 THEN ag.counter ELSE data_counter
           /\ window' = IF Len(gates) >= 4 THEN tc.w ELSE window
           /\ limiter' = IF Len(gates) = 5 THEN al.l ELSE limiter
           /\ queue' = IF pass /\ audio_enabled
                       THEN play(queue, sound_for(evt.kind), evt.retry, gain)
                       ELSE queue
           /\ packet_notifier' = IF pass /\ web_sound_enabled
                                 THEN notifier_send(packet_notifier, listeners,
                                                    evt)
                                 ELSE packet_notifier
           /\ call' = [op |-> "consume", evt |-> evt, blocked |-> cons.blocked,
                       gates |-> gates, played |-> pass /\ audio_enabled,
                       notified |-> pass /\ web_sound_enabled,
                       listeners |-> listeners,
                       kept |-> Len(packet_notifier)]
    /\ cons' = [pc |-> "recv", evt |-> None, blocked |-> {}]
    /\ UNCHANGED <<qlock, playPc, playArgs, cbPc, cbLeft, cbData>>
    /\ UNCHANGED <<now, passLog, allowedAt, settings, flagVars, trackerVars,
                   packet_rx, listeners, lockVars, handleVars, sniffer>>

\* write_samples_f32 over n output slots while play is not running: every slot
\* takes the front of the queue, or silence, and goes to the device.
WriteSamples(n) ==
    /\ cbPc = "idle"
    /\ qlock = "free"
    /\ queue' = SubSeq(queue, n + 1, Len(queue))
    /\ UNCHANGED <<qlock, playPc, playArgs, cbPc, cbLeft, cbData>>
    /\ UNCHANGED nonAudioVars

\* web.rs handle_ws: rx.recv() takes the next broadcast event, which goes to
\* the socket when web_sound_enabled is set.
WsForward ==
    /\ packet_notifier # <<>>
    /\ packet_notifier' = Tail(packet_notifier)
    /\ UNCHANGED <<packet_rx, data_counter, cons, listeners, sniffer>>
    /\ UNCHANGED <<lockVars, handleVars>>
    /\ UNCHANGED <<audioVars, now, shaperVars, historyVars, settings, flagVars,
                   trackerVars>>

\* web.rs update_sound: each field of the body that is present is stored.
UpdateSound(body) ==
    /\ audio_enabled' =
           IF IsSome(body.audio_jack) THEN Unwrap(body.audio_jack)
           ELSE audio_enabled
    /\ web_sound_enabled' =
           IF IsSome(body.web_ui) THEN Unwrap(body.web_ui)
           ELSE web_sound_enabled
    /\ volume_by_signal' =
           IF IsSome(body.volume_by_signal) THEN Unwrap(body.volume_by_signal)
           ELSE volume_by_signal
    /\ UNCHANGED <<audioVars, now, shaperVars, historyVars, settings,
                   trackerVars, pipeVars, lockVars, handleVars>>

\* for evt in events { settings.enabled.insert(evt.id, evt.enabled) }
RECURSIVE insert_toggles(_, _)
insert_toggles(en, events) ==
    IF events = <<>> THEN en
    ELSE insert_toggles(Insert(en, Head(events).id, Head(events).enabled),
                        Tail(events))

\* The mode is stored and the toggles are left for a later write.
UpdateEvents_mode(body) ==
    /\ settings' =
           [mode |-> IF IsSome(body.mode) THEN Unwrap(body.mode)
                     ELSE settings.mode,
            enabled |-> IF IsSome(body.events) /\ ~IsSome(body.mode)
                        THEN insert_toggles(settings.enabled,
                                            Unwrap(body.events))
                        ELSE settings.enabled]
    /\ UNCHANGED <<audioVars, now, shaperVars, historyVars, flagVars,
                   trackerVars, pipeVars, lockVars, handleVars>>

\* web.rs update_events, under the write lock of the settings.
UpdateEvents(body) ==
    /\ settings' =
           [mode |-> IF IsSome(body.mode) THEN Unwrap(body.mode)
                     ELSE settings.mode,
            enabled |-> IF IsSome(body.events)
                        THEN insert_toggles(settings.enabled,
                                            Unwrap(body.events))
                        ELSE settings.enabled]
    /\ UNCHANGED <<audioVars, now, shaperVars, historyVars, flagVars,
                   trackerVars, pipeVars, lockVars, handleVars>>

\* DeviceTracker::set_many, called while the consumer runs.
PipeSetMany(toggles) ==
    /\ blocked' = set_many(blocked, toggles)
    /\ UNCHANGED <<devices, ssid_cache, channel_cache>>
    /\ UNCHANGED <<audioVars, now, shaperVars, historyVars, settings, flagVars,
                   pipeVars, lockVars, handleVars>>

SoundBodies ==
    {[audio_jack |-> Some(FALSE), web_ui |-> Some(TRUE),
      volume_by_signal |-> None]}

EventsBodies ==
    {[mode |-> Some("Sparse"),
      events |-> Some(<<[id |-> "Ack", enabled |-> FALSE]>>)]}

PipeToggles ==
    {<<<<M1, FALSE>>, <<M2, TRUE>>>>, <<<<M1, TRUE>>, <<M2, FALSE>>>>}

\* The clock jumps past the window and every gap.
PipeSteps == {MaxTime}

PipelineNext ==
    \/ \E d \in PipeSteps : ClockTick(d)
    \/ \E evt \in PipeEvents : SnifferSend(evt)
    \/ ConsumerRecv
    \/ ConsumerAdmit
    \/ WriteSamples(MaxSlots)
    \/ WsForward
    \/ \E body \in SoundBodies : UpdateSound(body)
    \/ \E body \in EventsBodies : UpdateEvents(body)
    \/ \E toggles \in PipeToggles : PipeSetMany(toggles)

PipelineSpec == WindowInit /\ [][PipelineNext]_vars

(***************************************************************************)
(* The aggregation gate on its own: DataTicks reach it one after the other *)
(* while the mode stays what it was at the start.  call.k counts the       *)
(* events that reached the gate and call.passes those that passed it.      *)
(***************************************************************************)
MaxTicks == 250

CallAggregate ==
    /\ call.op \in {"none", "aggregate"}
    /\ LET k == IF call.op = "aggregate" THEN call.k ELSE 0
           passes == IF call.op = "aggregate" THEN call.passes ELSE 0
           r == aggregate(data_counter, settings.mode)
       IN  /\ k < MaxTicks
           /\ data_counter' = r.counter
           /\ call' = [op |-> "aggregate", k |-> k + 1, ok |-> r.ok,
                       passes |-> IF r.ok THEN passes + 1 ELSE passes]
    /\ UNCHANGED <<packet_rx, cons, packet_notifier, listeners, sniffer,
                   passLog, allowedAt, lockVars, handleVars>>
    /\ UNCHANGED <<audioVars, now, shaperVars, settings, flagVars, trackerVars>>

TickNext == CallAggregate

TickSpec == GateInit /\ [][TickNext]_vars

(***************************************************************************)
(* C1.  The realtime callback never waits for the sample-queue lock: when  *)
(* pop_sample runs while play holds the queue mutex it returns silence     *)
(* at once.  In the model a callback that has to wait is parked            *)
(* ("blocked"), so the claim says that this position is never reached.     *)
(***************************************************************************)
C1_CallbackNeverWaits == cbPc # "blocked"

(***************************************************************************)
(* C3.  RateLimiter.allow(kind, key, gap) returns true on the first call   *)
(* for a fresh (kind, key), false less than gap after the last allowed     *)
(* call for that (kind, key) and true at least gap after it, so two        *)
(* allowed calls for one (kind, key) are at least the later call's gap     *)
(* apart; the pipeline's gaps are Beacon 333, ProbeReq/ProbeResp 200,      *)
(* Assoc/Deauth 500, Eapol 300, Rts/Cts 150, Ack 80 (Crowded) or 40        *)
(* (Sparse), DataTick 200 ms.  call.prev is the instant of the last        *)
(* allowed call for the same (kind, key), -1 when there was none.          *)
(***************************************************************************)
C3_GapTable ==
    \A m \in NoiseModes :
        /\ min_interval_for("Beacon", m) = 333
        /\ min_interval_for("ProbeReq", m) = 200
        /\ min_interval_for("ProbeResp", m) = 200
        /\ min_interval_for("Assoc", m) = 500
        /\ min_interval_for("Deauth", m) = 500
        /\ min_interval_for("Eapol", m) = 300
        /\ min_interval_for("Rts", m) = 150
        /\ min_interval_for("Cts", m) = 150
        /\ min_interval_for("Ack", m) = (IF m = "Crowded" THEN 80 ELSE 40)
        /\ min_interval_for("DataTick", m) = 200

C3_RateLimiter ==
    /\ C3_GapTable
    /\ call.op = "allow" =>
         /\ call.prev = -1 => call.ok
         /\ (call.prev >= 0 /\ call.at - call.prev < call.gap) => ~call.ok
         /\ (call.prev >= 0 /\ call.at - call.prev >= call.gap) => call.ok
         /\ (call.ok /\ call.prev >= 0) => call.at - call.prev >= call.gap

\* An Ack allowed exactly its gap after the last allowed one, with another
\* entry of the same kind in the map.
C3_Witness ==
    /\ call.op = "allow"
    /\ call.ok
    /\ call.prev >= 0
    /\ call.at - call.prev = call.gap
    /\ Cardinality(DOMAIN limiter) >= 2

(***************************************************************************)
(* C4.  EventWindow.try_count with caps (capMgmt, capCtrl, capData)        *)
(* returns true and increments the event's bucket (mgmt for Beacon,        *)
(* ProbeReq, ProbeResp, Assoc, Deauth, Eapol; ctrl for Rts, Cts, Ack; data *)
(* for DataTick) while the bucket's count is below its cap, and returns    *)
(* false once the cap is reached in the current window; the first call     *)
(* made after the window duration has elapsed resets all three counters    *)
(* and is counted in a fresh window.  Stated of every try_count step: the  *)
(* window before, the call's arguments and result, the window after.       *)
(***************************************************************************)
C4_Bucket(kind) ==
    CASE kind \in {"Beacon", "ProbeReq", "ProbeResp", "Assoc", "Deauth",
                   "Eapol"} -> "mgmt"
      [] kind \in {"Rts", "Cts", "Ack"} -> "ctrl"
      [] kind = "DataTick" -> "data"

Count(w, b) ==
    CASE b = "mgmt" -> w.counts_mgmt
      [] b = "ctrl" -> w.counts_ctrl
      [] b = "data" -> w.counts_data

CapOf(caps, b) ==
    CASE b = "mgmt" -> caps[1]
      [] b = "ctrl" -> caps[2]
      [] b = "data" -> caps[3]

C4_Step ==
    (call'.op = "try_count" /\ now' = now) =>
        LET elapsed == now - window.start >= 100
            base(b) == IF elapsed THEN 0 ELSE Count(window, b)
            mine == C4_Bucket(call'.kind)
        IN  /\ call'.ok = (base(mine) < CapOf(call'.caps, mine))
            /\ Count(window', mine) = base(mine) + (IF call'.ok THEN 1 ELSE 0)
            /\ \A b \in Buckets \ {mine} : Count(window', b) = base(b)
            /\ window'.start = (IF elapsed THEN now ELSE window.start)

C4_TryCount == [][C4_Step]_vars

\* With caps (2,1,1): a management call made 100 ms or more after the window
\* began is the first of a fresh window.
C4_Witness ==
    /\ call.op = "try_count"
    /\ call.caps = <<2, 1, 1>>
    /\ C4_Bucket(call.kind) = "mgmt"
    /\ call.ok
    /\ call.at >= 100
    /\ window.start = call.at
    /\ window.counts_mgmt = 1
    /\ window.counts_ctrl = 0
    /\ window.counts_data = 0

(***************************************************************************)
(* C5.  As claimed: the window is rolling, so in any interval of 100 ms,   *)
(* whatever its start, the number of events that pass the window gate is   *)
(* at most the mode's cap per bucket (Crowded 3, 2, 1; Sparse 5, 3, 1).    *)
(* passLog holds the passes of the interval (now - 100, now].              *)
(***************************************************************************)
C5_Rolling ==
    \A b \in Buckets : Len(passLog[b]) <= CapOf(WindowCaps(settings.mode), b)

(***************************************************************************)
(* C5, amended.  The window is a fixed one, restarted by the first query   *)
(* made 100 ms or more after it began: the passes since the window began   *)
(* are at most the mode's cap per bucket, and an interval of 100 ms, which *)
(* can straddle a restart, holds at most twice the cap.                    *)
(***************************************************************************)
C5_Tumbling ==
    \A b \in Buckets :
        LET cap == CapOf(WindowCaps(settings.mode), b)
        IN  /\ Count(window, b) <= cap
            /\ Len(SelectSeq(passLog[b], LAMBDA t : t >= window.start)) <= cap
            /\ Len(passLog[b]) <= 2 * cap

\* Crowded: three management events pass at 99 ms and three more at 100 ms.
C5_Witness ==
    /\ settings.mode = "Crowded"
    /\ Len(passLog["mgmt"]) = 6
    /\ window.counts_mgmt = 3

(***************************************************************************)
(* C2.  In the consumer loop an event is dispatched to AudioHandle.play or *)
(* to the notification channel only if it passed, in this order, all five  *)
(* gates: DeviceTracker.allows, the per-kind enable toggle, data-tick      *)
(* aggregation, EventWindow.try_count and RateLimiter.allow; an event      *)
(* failing any gate is never rendered or notified.  The state part says    *)
(* that the gates an event went through are a prefix of the five, all      *)
(* passed but possibly the last, and that a dispatched event passed five.  *)
(* The step part says what a step that grows the sample queue or the       *)
(* broadcast channel rests on, and that an event dropped at a gate left    *)
(* the state of the later gates alone.                                     *)
(***************************************************************************)
C2_Trace ==
    call.op = "consume" =>
        /\ Len(call.gates) \in 1..Len(GateOrder)
        /\ \A i \in 1..(Len(call.gates) - 1) : call.gates[i]
        /\ (call.played \/ call.notified) =>
               /\ Len(call.gates) = Len(GateOrder)
               /\ call.gates[Len(GateOrder)]

C2_Rendered == Len(queue') > Len(queue)

C2_Notified ==
    /\ packet_notifier' # packet_notifier
    /\ packet_notifier = <<>> \/ packet_notifier' # Tail(packet_notifier)

C2_Dispatch ==
    (C2_Rendered \/ C2_Notified) =>
        /\ cons.pc = "settings"
        /\ LET evt == Unwrap(cons.evt)
               key == <<evt.kind, evt.rate_key>>
               b == C4_Bucket(evt.kind)
               caps == IF settings.mode = "Crowded" THEN <<3, 2, 1>>
                       ELSE <<5, 3, 1>>
               N == IF settings.mode = "Crowded" THEN 100 ELSE 10
           IN  /\ ~(IsSome(evt.src) /\ Unwrap(evt.src) \in cons.blocked)
               /\ ~(IsSome(evt.bssid) /\ Unwrap(evt.bssid) \in cons.blocked)
               /\ settings.enabled[evt.kind]
               /\ evt.kind = "DataTick" =>
                      data_counter + 1 >= N /\ data_counter' = 0
               /\ evt.kind # "DataTick" => data_counter' = data_counter
               /\ Count(window', b) \in 1..CapOf(caps, b)
               /\ key \in DOMAIN limiter =>
                      now - limiter[key] >= min_interval_for(evt.kind,
                                                             settings.mode)
               /\ limiter'[key] = now
               /\ C2_Rendered => audio_enabled
               /\ C2_Notified => web_sound_enabled

C2_Dropped ==
    (cons'.pc = "recv" /\ call' # call /\ call'.op = "consume") =>
        LET n == Len(call'.gates)
            failed == ~call'.gates[n]
        IN  /\ failed => UNCHANGED <<queue, packet_notifier>>
            /\ (failed /\ n <= 4) => UNCHANGED limiter
            /\ (failed /\ n <= 3) => UNCHANGED window
            /\ (failed /\ n <= 2) => UNCHANGED data_counter
            /\ (failed /\ n = 3) => data_counter' = data_counter + 1

C2_FiveGates == []C2_Trace /\ [][C2_Dispatch /\ C2_Dropped]_vars

\* The tenth DataTick in Sparse mode passed the five gates and was played.
C2_Witness ==
    /\ call.op = "consume"
    /\ call.evt.kind = "DataTick"
    /\ call.gates = <<TRUE, TRUE, TRUE, TRUE, TRUE>>
    /\ call.played
    /\ queue # <<>>

(***************************************************************************)
(* C6.  Data-tick aggregation: with the mode held constant (N = 100        *)
(* Crowded, N = 10 Sparse) and the counter starting at 0, of k DataTick    *)
(* events that reach the aggregation gate exactly floor(k/N) pass it,      *)
(* namely the N-th, 2N-th, ... ones, and the counter is 0 after each pass; *)
(* 250 DataTicks in Crowded mode yield exactly 2 passes.                   *)
(***************************************************************************)
C6_N == IF settings.mode = "Crowded" THEN 100 ELSE 10

C6_Aggregation ==
    call.op = "aggregate" =>
        /\ call.passes = call.k \div C6_N
        /\ call.ok <=> (call.k % C6_N = 0)
        /\ call.ok => data_counter = 0
        /\ data_counter = call.k % C6_N
        /\ (settings.mode = "Crowded" /\ call.k = 250) => call.passes = 2

\* 250 DataTicks went by in Crowded mode and two of them passed.
C6_Witness ==
    /\ call.op = "aggregate"
    /\ settings.mode = "Crowded"
    /\ call.k = 250
    /\ call.passes = 2

(***************************************************************************)
(* C7.  DeviceTracker.allows(src, bssid) returns false exactly when src is *)
(* present and in the blocklist or bssid is present and in the blocklist,  *)
(* and true otherwise (including when both are absent); therefore no event *)
(* whose src or bssid is blocklisted at the time of the gate-1 check is    *)
(* ever rendered or notified.  call.blocked is the blocklist gate 1 read   *)
(* and call.gates[1] what allows returned.                                 *)
(***************************************************************************)
C7_Blocklisted(blk, evt) ==
    \/ evt.src # None /\ evt.src[1] \in blk
    \/ evt.bssid # None /\ evt.bssid[1] \in blk

C7_Allows ==
    /\ call.op = "consume" =>
           /\ call.gates[1] <=> ~C7_Blocklisted(call.blocked, call.evt)
           /\ (call.evt.src = None /\ call.evt.bssid = None) => call.gates[1]
           /\ (call.played \/ call.notified) =>
                  ~C7_Blocklisted(call.blocked, call.evt)
    /\ cons.pc = "settings" => ~C7_Blocklisted(cons.blocked, cons.evt[1])

\* A data frame of M2 was dropped at gate 1 because its BSSID M1 was blocked
\* while M2 itself was not.
C7_Witness ==
    /\ call.op = "consume"
    /\ call.evt.src = Some(M2)
    /\ call.evt.bssid = Some(M1)
    /\ call.blocked = {M1}
    /\ call.gates = <<FALSE>>

(***************************************************************************)
(* C8.  A tracked device's role is monotonically upgraded: over any        *)
(* sequence of observe, reset_counts, set_many and snapshot calls a device *)
(* whose role is Ap stays Ap and a device whose role is Client never       *)
(* becomes Unknown, whatever role hints later observes carry.  Stated of   *)
(* every step: each tracked device is still tracked, with a role no lower. *)
(***************************************************************************)
C8_Step ==
    \A m \in DOMAIN devices :
        /\ m \in DOMAIN devices'
        /\ devices[m].role = "Ap" => devices'[m].role = "Ap"
        /\ devices[m].role = "Client" => devices'[m].role \in {"Ap", "Client"}

C8_RoleMonotone == [][C8_Step]_vars

\* An Ap observed again with the hint Client is still an Ap.
C8_Witness ==
    /\ call.op = "observe"
    /\ call.current = "Ap"
    /\ call.hint = "Client"
    /\ devices[call.mac].role = "Ap"
    /\ blocked # {}

(***************************************************************************)
(* C9.  merge_role is commutative and idempotent over {Ap, Client,         *)
(* Unknown} and returns the higher-ranked of its two arguments (Ap beats   *)
(* Client beats Unknown) whatever their order.  Stated of the merge each   *)
(* observe makes: call.current is the role before, call.hint the role      *)
(* passed, call.role the role stored.                                      *)
(***************************************************************************)
C9_Higher(a, b) ==
    IF a = "Ap" \/ b = "Ap" THEN "Ap"
    ELSE IF a = "Client" \/ b = "Client" THEN "Client"
    ELSE "Unknown"

C9_MergeRole ==
    call.op = "observe" =>
        /\ call.role = C9_Higher(call.current, call.hint)
        /\ call.role = merge_role(call.hint, call.current)
        /\ call.current = call.hint => call.role = call.current
        /\ merge_role(call.role, call.role) = call.role

\* A Client observed with the hint Ap: the second argument wins.
C9_Witness ==
    /\ call.op = "observe"
    /\ call.current = "Client"
    /\ call.hint = "Ap"
    /\ call.role = "Ap"

(***************************************************************************)
(* C10.  snapshot returns its devices sorted by role rank ascending (Ap 0, *)
(* Client 1, Unknown 2) and, within one role, by frame count descending:   *)
(* for adjacent entries a before b, rank(a) < rank(b), or the ranks are    *)
(* equal and a.frames >= b.frames.                                         *)
(***************************************************************************)
C10_Rank(role) ==
    CASE role = "Ap" -> 0
      [] role = "Client" -> 1
      [] role = "Unknown" -> 2

C10_SnapshotSorted ==
    call.op = "snapshot" =>
        \A i \in 1..(Len(call.list) - 1) :
            LET a == call.list[i]
                b == call.list[i + 1]
            IN  \/ C10_Rank(a.role) < C10_Rank(b.role)
                \/ /\ C10_Rank(a.role) = C10_Rank(b.role)
                   /\ a.frames >= b.frames

\* Ap(1), Ap(2) and Client(3) come out as Ap(2), Ap(1), Client(3).
C10_Witness ==
    /\ call.op = "snapshot"
    /\ Len(call.list) = 3
    /\ call.list[1].role = "Ap" /\ call.list[1].frames = 2
    /\ call.list[2].role = "Ap" /\ call.list[2].frames = 1
    /\ call.list[3].role = "Client" /\ call.list[3].frames = 3

(***************************************************************************)
(* C11.  snapshot(window) returns exactly the tracked devices whose age    *)
(* (now minus last_seen) is at most window, each once, with allowed =      *)
(* (device MAC not in blocklist), and with ssid/channel equal to the       *)
(* device's own stored value if it has one and otherwise the SSID/channel  *)
(* cache entry for the device's bssid (absent if neither exists).  Stated  *)
(* of every step that returns a snapshot, against the tracker it read.     *)
(***************************************************************************)
C11_Fresh(win) == {m \in DOMAIN devices : now - devices[m].last_seen <= win}

C11_Value(own, b, cache) ==
    IF own # None THEN own
    ELSE IF b # None /\ b[1] \in DOMAIN cache THEN <<cache[b[1]]>>
    ELSE None

C11_Step ==
    (call'.op = "snapshot" /\ call' # call) =>
        LET list == call'.list
            fresh == C11_Fresh(call'.window)
        IN  /\ Len(list) = Cardinality(fresh)
            /\ \A i, j \in 1..Len(list) : list[i].mac = list[j].mac => i = j
            /\ \A m \in fresh : \E i \in 1..Len(list) :
                   /\ list[i].mac = format_mac(m)
                   /\ list[i].allowed = (m \notin blocked)
                   /\ list[i].ssid =
                          C11_Value(devices[m].ssid, devices[m].bssid, ssid_cache)
                   /\ list[i].channel =
                          C11_Value(devices[m].channel, devices[m].bssid,
                                    channel_cache)

C11_Snapshot == [][C11_Step]_vars

\* M1 is older than the window and left out; the blocked M2 is listed with the
\* SSID cached for its BSSID, having none of its own, and its own channel.
C11_Witness ==
    /\ call.op = "snapshot"
    /\ M1 \in DOMAIN devices
    /\ now - devices[M1].last_seen > call.window
    /\ M2 \in DOMAIN devices
    /\ devices[M2].ssid = None
    /\ blocked = {M2}
    /\ Len(call.list) = 1
    /\ call.list[1].mac = "02:00:00:00:00:02"
    /\ call.list[1].ssid = Some("a")
    /\ call.list[1].channel = Some(11)
    /\ ~call.list[1].allowed

(***************************************************************************)
(* C12.  set_many is idempotent: applying the same toggle list twice       *)
(* leaves the blocklist equal to applying it once; after set_many a MAC is *)
(* in the blocklist iff its last toggle in the list was allowed = false,   *)
(* and MACs not named in the list keep their prior blocklist membership.   *)
(***************************************************************************)
C12_Named(toggles) == {toggles[i][1] : i \in 1..Len(toggles)}

C12_LastAllowed(toggles, m) ==
    LET last == CHOOSE i \in 1..Len(toggles) :
                    /\ toggles[i][1] = m
                    /\ \A j \in 1..Len(toggles) : toggles[j][1] = m => j <= i
    IN  toggles[last][2]

C12_After ==
    call.op = "set_many" =>
        /\ set_many(blocked, call.toggles) = blocked
        /\ \A m \in C12_Named(call.toggles) :
               m \in blocked <=> ~C12_LastAllowed(call.toggles, m)

C12_Step ==
    (call'.op = "set_many" /\ (call' # call \/ blocked' # blocked)) =>
        \A m \in (blocked \cup blocked') \ C12_Named(call'.toggles) :
            m \in blocked' <=> m \in blocked

C12_SetMany == []C12_After /\ [][C12_Step]_vars

\* M1 is blocked and then allowed in one list while M2 stays blocked.
C12_Witness ==
    /\ call.op = "set_many"
    /\ call.toggles = <<<<M1, FALSE>>, <<M1, TRUE>>>>
    /\ blocked = {M2}

(***************************************************************************)
(* C13.  reset_counts sets the frame counter of every tracked device to 0  *)
(* and leaves unchanged the set of tracked MACs, each device's bssid,      *)
(* role, last_seen, rssi, ssid and channel, the blocklist, and the         *)
(* SSID/channel caches.                                                    *)
(***************************************************************************)
C13_After ==
    call.op = "reset_counts" => \A m \in DOMAIN devices : devices[m].frames = 0

C13_Step ==
    (call'.op = "reset_counts" /\ (call' # call \/ devices' # devices)) =>
        /\ DOMAIN devices' = DOMAIN devices
        /\ \A m \in DOMAIN devices :
               /\ devices'[m].frames = 0
               /\ devices'[m].mac = devices[m].mac
               /\ devices'[m].bssid = devices[m].bssid
               /\ devices'[m].role = devices[m].role
               /\ devices'[m].last_seen = devices[m].last_seen
               /\ devices'[m].last_rssi = devices[m].last_rssi
               /\ devices'[m].ssid = devices[m].ssid
               /\ devices'[m].channel = devices[m].channel
        /\ UNCHANGED <<blocked, ssid_cache, channel_cache>>

C13_ResetCounts == []C13_After /\ [][C13_Step]_vars

\* The counts of both devices are back at 0 while M1 keeps its RSSI, SSID and
\* channel, M2 stays blocked and the caches keep what they learned.
C13_Witness ==
    /\ call.op = "reset_counts"
    /\ DOMAIN devices = {M1, M2}
    /\ devices[M1].frames = 0
    /\ devices[M2].frames = 0
    /\ devices[M1].last_rssi = Some(-40)
    /\ devices[M1].ssid = Some("b")
    /\ devices[M1].channel = Some(6)
    /\ devices[M1].role = "Ap"
    /\ blocked = {M2}
    /\ M1 \in DOMAIN ssid_cache
    /\ M1 \in DOMAIN channel_cache

(***************************************************************************)
(* C14.  Tracked devices are created on first observation and never        *)
(* deleted: after any sequence of observe, snapshot, set_many and          *)
(* reset_counts calls, the set of tracked MACs equals the set of all MACs  *)
(* ever passed to observe, and a device older than the snapshot window is  *)
(* only omitted from that snapshot, reappearing with its accumulated role  *)
(* and data once observed again.  Stated step by step: no device is        *)
(* tracked at the start, an observe adds its MAC to the tracked ones and   *)
(* no other call changes them; and an observe of a device older than the   *)
(* window counts one more frame, merges the role and loses no field.       *)
(***************************************************************************)
C14_Observed == call'.op = "observe" /\ devices' # devices

C14_Step ==
    /\ DOMAIN devices' =
           IF C14_Observed THEN DOMAIN devices \cup {call'.mac}
           ELSE DOMAIN devices
    /\ \A win \in SnapshotWindows :
           (/\ C14_Observed
            /\ call'.mac \in DOMAIN devices
            /\ now - devices[call'.mac].last_seen > win) =>
               LET old == devices[call'.mac]
                   new == devices'[call'.mac]
               IN  /\ new.last_seen = now
                   /\ new.frames = old.frames + 1
                   /\ new.role = C9_Higher(old.role, call'.hint)
                   /\ old.bssid # None => new.bssid # None
                   /\ old.last_rssi # None => new.last_rssi # None
                   /\ old.ssid # None => new.ssid # None
                   /\ old.channel # None => new.channel # None

C14_NeverDeleted == (DOMAIN devices = {}) /\ [][C14_Step]_vars

\* M1 was seen more than a window ago: the snapshot lists M2 alone, and M1 is
\* still tracked with its role, count, SSID and channel.
C14_Witness ==
    /\ call.op = "snapshot"
    /\ DOMAIN devices = {M1, M2}
    /\ now - devices[M1].last_seen > call.window
    /\ Len(call.list) = 1
    /\ call.list[1].mac = "02:00:00:00:00:02"
    /\ devices[M1].role = "Ap"
    /\ devices[M1].frames = 2
    /\ devices[M1].ssid = Some("b")
    /\ devices[M1].channel = Some(6)

(***************************************************************************)
(* C15.  Each observe(mac, ...) sets the device's last_seen to now and     *)
(* increments its frame count by exactly one, saturating at the maximum of *)
(* the 64-bit counter (never wrapping); so a device's frame count equals   *)
(* the number of observes for that MAC since its creation or the last      *)
(* reset_counts, whichever is later.  call.frames is the count the observe *)
(* found (0 for a new device).  The step part says that the counts change  *)
(* by one per observe of their MAC, go to 0 at reset_counts and change at  *)
(* no other step, which makes the count the number of observes.            *)
(***************************************************************************)
C15_Next(n) == IF n = U64Max THEN U64Max ELSE n + 1

C15_Count(dev, m) == IF m \in DOMAIN dev THEN dev[m].frames ELSE 0

C15_Observed(m) ==
    call'.op = "observe" /\ call'.mac = m /\ (call' # call \/ devices' # devices)

C15_Step ==
    \A m \in DOMAIN devices' :
        /\ C15_Count(devices', m) =
               IF C15_Observed(m)
               THEN C15_Next(C15_Count(devices, m))
               ELSE IF call'.op = "reset_counts" /\ devices' # devices
               THEN 0
               ELSE C15_Count(devices, m)
        /\ C15_Observed(m) =>
               /\ devices'[m].last_seen = now'
               /\ devices'[m].frames # 0
               /\ call'.frames = C15_Count(devices, m)

C15_FrameCount == [][C15_Step]_vars

\* A device at u64::MAX was observed again after a while and is still at
\* u64::MAX.
C15_Witness ==
    /\ call.op = "observe"
    /\ call.frames = U64Max
    /\ devices[call.mac].frames = U64Max
    /\ devices[call.mac].last_seen = now
    /\ now > 0

(***************************************************************************)
(* C16.  observe overwrites a device's rssi, ssid and channel only when    *)
(* the call supplies them; when the call supplies no ssid (resp. channel)  *)
(* but a bssid B and the record has none yet, the record takes the cached  *)
(* value for B; and every ssid or channel supplied together with a bssid B *)
(* is written into the shared cache for B, so that a later frame for B     *)
(* without them inherits the value learned earlier.                        *)
(***************************************************************************)
C16_Old(field) ==
    IF call'.mac \in DOMAIN devices THEN devices[call'.mac][field] ELSE None

C16_Field(own, given, b, cache) ==
    IF IsSome(given) THEN given
    ELSE IF ~IsSome(own) /\ IsSome(b) /\ Unwrap(b) \in DOMAIN cache
    THEN Some(cache[Unwrap(b)])
    ELSE own

C16_Cached(given, b, cache) ==
    IsSome(given) /\ IsSome(b) =>
        /\ Unwrap(b) \in DOMAIN cache
        /\ cache[Unwrap(b)] = Unwrap(given)

C16_Step ==
    call'.op = "observe" /\ (call' # call \/ devices' # devices) =>
        LET new == devices'[call'.mac]
            b == call'.bssid
        IN  /\ new.last_rssi =
                   IF IsSome(call'.rssi_dbm) THEN call'.rssi_dbm
                   ELSE C16_Old("last_rssi")
            /\ new.ssid = C16_Field(C16_Old("ssid"), call'.ssid, b, ssid_cache)
            /\ new.channel =
                   C16_Field(C16_Old("channel"), call'.channel, b, channel_cache)
            /\ C16_Cached(call'.ssid, b, ssid_cache')
            /\ C16_Cached(call'.channel, b, channel_cache')

C16_Backfill == [][C16_Step]_vars

\* M2, seen before with an rssi and a channel of its own and no ssid, was
\* observed in a frame for M1 that carried none of the three: it kept its
\* rssi and channel and took the ssid learned from M1's beacon.
C16_Witness ==
    /\ call.op = "observe"
    /\ call.mac = M2
    /\ call.bssid = Some(M1)
    /\ call.rssi_dbm = None /\ call.ssid = None /\ call.channel = None
    /\ M1 \in DOMAIN ssid_cache /\ M1 \in DOMAIN channel_cache
    /\ devices[M2].ssid = Some(ssid_cache[M1])
    /\ IsSome(devices[M2].last_rssi)
    /\ IsSome(devices[M2].channel)
    /\ devices[M2].channel # Some(channel_cache[M1])

(***************************************************************************)
(* sniffer.rs: the frame decoder.  A packet is a sequence of bytes; the    *)
(* code's indices start at 0.  Every indexing or slicing expression of the *)
(* code is recorded as a pair <<limit, length>>: it panics unless limit    *)
(* <= length, the length being that of the slice indexed.                  *)
(***************************************************************************)
\* buf[i] where the index is inside the slice
Byte(buf, i) == IF i < Len(buf) THEN buf[i + 1] ELSE 0

\* buf[i] demands i < buf.len(), buf[..b] and buf[a..] demand b, a <= buf.len()
Need(limit, buf) == <<limit, Len(buf)>>

\* &buf[a..b], the part that exists
Slice(buf, a, b) ==
    LET e == IF b < Len(buf) THEN b ELSE Len(buf)
    IN  IF a >= e THEN <<>> ELSE SubSeq(buf, a + 1, e)

\* buf.get(a..b)
Get(buf, a, b) == IF b <= Len(buf) THEN Some(Slice(buf, a, b)) ELSE None

\* u16::from_le_bytes([lo, hi])
u16_from_le_bytes(lo, hi) == lo + 256 * hi

\* (present & (1 << bit)) != 0, present being u32::from_le_bytes of the
\* four bytes given
BitSet(present, bit) ==
    (present[(bit \div 8) + 1] \div (2 ^ (bit % 8))) % 2 = 1

\* b as i8
as_i8(b) == IF b >= 128 THEN b - 256 ELSE b

\* align(offset, align), align a power of two
align(offset, a) == ((offset + a - 1) \div a) * a

\* The line through (-90, 0.2) and (-30, 1.0), not clamped
dbm_to_gain_linear(dbm) == 200 + ((dbm + 90) * 800) \div 60

\* dbm_to_gain in thousandths: 0.2 + clamp((dbm + 90) / 60, 0, 1) * 0.8
dbm_to_gain(dbm) ==
    IF dbm <= -90 THEN 200
    ELSE IF dbm >= -30 THEN 1000
    ELSE 200 + ((dbm + 90) * 800) \div 60

freq_to_channel(freq) ==
    IF freq >= 2412 /\ freq <= 2472 THEN Some((freq - 2407) \div 5)
    ELSE IF freq = 2484 THEN Some(14)
    ELSE IF freq >= 5000 /\ freq <= 5900 THEN Some((freq - 5000) \div 5)
    ELSE None

\* The for loop of radiotap_signal from the given bit on: the SignalInfo
\* returned and the reads made.
RECURSIVE radiotap_bits(_, _, _, _, _, _)
radiotap_bits(data, rt_len, present, bit, offset, channel) ==
    IF bit = 32
    THEN [value |-> Some([gain |-> 1000, dbm |-> None, channel |-> channel]),
          reads |-> {}]
    ELSE IF ~BitSet(present, bit)
    THEN radiotap_bits(data, rt_len, present, bit + 1, offset, channel)
    ELSE CASE bit = 0 ->
                radiotap_bits(data, rt_len, present, bit + 1,
                              align(offset, 8) + 8, channel)
           [] bit \in {1, 2} ->
                radiotap_bits(data, rt_len, present, bit + 1, offset + 1,
                              channel)
           [] bit = 3 ->
                LET o == align(offset, 2)
                    inside == o + 4 <= rt_len /\ o + 4 <= Len(data)
                    freq == u16_from_le_bytes(Byte(data, o), Byte(data, o + 1))
                    r == radiotap_bits(data, rt_len, present, bit + 1, o + 4,
                                       IF inside THEN freq_to_channel(freq)
                                       ELSE channel)
                IN  [value |-> r.value,
                     reads |-> r.reads \cup
                               (IF inside
                                THEN {Need(o + 1, data), Need(o + 2, data)}
                                ELSE {})]
           [] bit = 4 ->
                radiotap_bits(data, rt_len, present, bit + 1,
                              align(offset, 2) + 2, channel)
           [] bit = 5 ->
                IF offset < rt_len /\ rt_len <= Len(data) /\ offset < Len(data)
                THEN LET sig == as_i8(Byte(data, offset))
                     IN  [value |-> Some([gain |-> dbm_to_gain(sig),
                                          dbm |-> Some(sig),
                                          channel |-> channel]),
                          reads |-> {}]
                ELSE radiotap_bits(data, rt_len, present, bit + 1, offset + 1,
                                   channel)
           [] OTHER ->
                radiotap_bits(data, rt_len, present, bit + 1, offset, channel)

\* radiotap_signal(data): the Option<SignalInfo> returned and the reads made
radiotap_signal(data) ==
    IF Len(data) < 8
    THEN [value |-> None, reads |-> {}]
    ELSE LET rt_len == u16_from_le_bytes(Byte(data, 2), Byte(data, 3))
             head == {Need(3, data), Need(4, data)}
         IN  IF rt_len > Len(data)
             THEN [value |-> None, reads |-> head]
             ELSE LET present == <<Byte(data, 4), Byte(data, 5),
                                   Byte(data, 6), Byte(data, 7)>>
                      r == radiotap_bits(data, rt_len, present, 0, 8, None)
                  IN  [value |-> r.value,
                       reads |-> head \cup r.reads
                                 \cup {Need(i, data) : i \in 5..8}]

\* std::str::from_utf8(bytes).is_ok()
RECURSIVE from_utf8_ok(_)
from_utf8_ok(bytes) ==
    LET n == Len(bytes)
        cont(i, lo, hi) == i <= n /\ bytes[i] >= lo /\ bytes[i] <= hi
        b == bytes[1]
        rest(k) == from_utf8_ok(SubSeq(bytes, k + 1, n))
    IN  IF n = 0 THEN TRUE
        ELSE IF b < 128 THEN rest(1)
        ELSE IF b >= 194 /\ b <= 223
        THEN cont(2, 128, 191) /\ rest(2)
        ELSE IF b = 224
        THEN cont(2, 160, 191) /\ cont(3, 128, 191) /\ rest(3)
        ELSE IF (b >= 225 /\ b <= 236) \/ b \in {238, 239}
        THEN cont(2, 128, 191) /\ cont(3, 128, 191) /\ rest(3)
        ELSE IF b = 237
        THEN cont(2, 128, 159) /\ cont(3, 128, 191) /\ rest(3)
        ELSE IF b = 240
        THEN cont(2, 144, 191) /\ cont(3, 128, 191) /\ cont(4, 128, 191)
             /\ rest(4)
        ELSE IF b >= 241 /\ b <= 243
        THEN cont(2, 128, 191) /\ cont(3, 128, 191) /\ cont(4, 128, 191)
             /\ rest(4)
        ELSE IF b = 244
        THEN cont(2, 128, 143) /\ cont(3, 128, 191) /\ cont(4, 128, 191)
             /\ rest(4)
        ELSE FALSE

\* format!("{:02X}", b): the two upper-case hex digits of a byte, in ASCII
UpperHex(b) ==
    LET digit(d) == IF d < 10 THEN 48 + d ELSE 55 + d
    IN  <<digit(b \div 16), digit(b % 16)>>

RECURSIVE HexString(_)
HexString(bytes) ==
    IF bytes = <<>> THEN <<>>
    ELSE UpperHex(Head(bytes)) \o HexString(Tail(bytes))

\* "<hidden>".to_string()
Hidden == <<60, 104, 105, 100, 100, 101, 110, 62>>

\* decode_ssid: a String is the sequence of the bytes of its text; the text
\* of bytes that are no UTF-8 is "0x" followed by their hex digits.
decode_ssid(bytes) ==
    IF bytes = <<>> THEN Some(Hidden)
    ELSE IF from_utf8_ok(bytes) THEN Some(bytes)
    ELSE Some(<<48, 120>> \o HexString(bytes))

mgmt_ie_start(subtype, payload) ==
    IF subtype \in {8, 5}
    THEN IF Len(payload) < 12 THEN None ELSE Some(12)
    ELSE IF subtype = 4 THEN Some(0)
    ELSE None

\* The while loop of parse_ssid from idx
RECURSIVE ssid_loop(_, _)
ssid_loop(payload, idx) ==
    IF ~(idx + 2 <= Len(payload))
    THEN [value |-> None, reads |-> {}]
    ELSE LET id == Byte(payload, idx)
             len == Byte(payload, idx + 1)
             at == idx + 2
             head == {Need(idx + 1, payload), Need(idx + 2, payload)}
         IN  IF at + len > Len(payload)
             THEN [value |-> None, reads |-> head]
             ELSE IF id = 0
             THEN [value |-> decode_ssid(Slice(payload, at, at + len)),
                   reads |-> head \cup {Need(at + len, payload)}]
             ELSE LET r == ssid_loop(payload, at + len)
                  IN  [value |-> r.value, reads |-> head \cup r.reads]

parse_ssid(kind, subtype, payload) ==
    IF kind # 0
    THEN [value |-> None, reads |-> {}]
    ELSE LET start == mgmt_ie_start(subtype, payload)
         IN  IF ~IsSome(start) \/ Len(payload) < Unwrap(start) + 2
             THEN [value |-> None, reads |-> {}]
             ELSE ssid_loop(payload, Unwrap(start))

\* The while loop of parse_ds_channel from idx
RECURSIVE ds_channel_loop(_, _)
ds_channel_loop(payload, idx) ==
    IF ~(idx + 2 <= Len(payload))
    THEN [value |-> None, reads |-> {}]
    ELSE LET id == Byte(payload, idx)
             len == Byte(payload, idx + 1)
             at == idx + 2
             head == {Need(idx + 1, payload), Need(idx + 2, payload)}
         IN  IF at + len > Len(payload)
             THEN [value |-> None, reads |-> head]
             ELSE IF id = 3 /\ len >= 1
             THEN [value |-> Some(Byte(payload, at)),
                   reads |-> head \cup {Need(at + 1, payload)}]
             ELSE LET r == ds_channel_loop(payload, at + len)
                  IN  [value |-> r.value, reads |-> head \cup r.reads]

parse_ds_channel(subtype, payload) ==
    LET start == mgmt_ie_start(subtype, payload)
    IN  IF ~IsSome(start)
        THEN [value |-> None, reads |-> {}]
        ELSE ds_channel_loop(payload, Unwrap(start))

\* (fc >> 2) & 0x3 and (fc >> 4) & 0xF
kind_bits_of(fc) == (fc \div 4) % 4
subtype_of(fc) == (fc \div 16) % 16

\* Every frame taken to have the header of a control frame.
base_hdr_len_ctrl(kind_bits, subtype) == 10

\* let base_hdr_len = if kind_bits == 1 { 10 } else if has_qos { 26 } else { 24 }
base_hdr_len(kind_bits, subtype) ==
    LET has_qos == kind_bits = 2 /\ (subtype \div 8) % 2 = 1
    IN  IF kind_bits = 1 THEN 10 ELSE IF has_qos THEN 26 ELSE 24

\* The table with the rows of fromDS and toDS exchanged.
resolve_bssid_swapped(fc, addr1, addr2, addr3) ==
    LET tods == (fc \div 256) % 2 = 1
        fromds == (fc \div 512) % 2 = 1
    IN  CASE kind_bits_of(fc) = 0 -> addr3
          [] kind_bits_of(fc) = 2 ->
                IF ~tods /\ ~fromds THEN addr3
                ELSE IF ~tods /\ fromds THEN addr1
                ELSE IF tods /\ ~fromds THEN addr2
                ELSE None
          [] OTHER -> None

\* let bssid = match kind_bits { ... }
resolve_bssid(fc, addr1, addr2, addr3) ==
    LET tods == (fc \div 256) % 2 = 1
        fromds == (fc \div 512) % 2 = 1
    IN  CASE kind_bits_of(fc) = 0 -> addr3
          [] kind_bits_of(fc) = 2 ->
                IF ~tods /\ ~fromds THEN addr3
                ELSE IF ~tods /\ fromds THEN addr2
                ELSE IF tods /\ ~fromds THEN addr1
                ELSE None
          [] OTHER -> None

\* parse_radiotap_and_frame(data): the Option<ParsedFrame> returned and the
\* reads made
parse_radiotap_and_frame(data) ==
    IF Len(data) < 4
    THEN [frame |-> None, reads |-> {}]
    ELSE
    LET rt_len == u16_from_le_bytes(Byte(data, 2), Byte(data, 3))
        r0 == {Need(3, data), Need(4, data)}
    IN
    IF Len(data) < rt_len + 10
    THEN [frame |-> None, reads |-> r0]
    ELSE
    LET frame == Slice(data, rt_len, Len(data))
        r1 == r0 \cup {Need(rt_len, data)}
    IN
    IF Len(frame) < 10
    THEN [frame |-> None, reads |-> r1]
    ELSE
    LET fc == u16_from_le_bytes(Byte(frame, 0), Byte(frame, 1))
        r2 == r1 \cup {Need(1, frame), Need(2, frame)}
        kind_bits == kind_bits_of(fc)
        subtype == subtype_of(fc)
        hdr == base_hdr_len(kind_bits, subtype)
    IN
    IF Len(frame) < hdr
    THEN [frame |-> None, reads |-> r2]
    ELSE
    LET addr1 == Get(frame, 4, 10)
        addr2 == Get(frame, 10, 16)
        addr3 == IF hdr >= 16 THEN Get(frame, 16, 22) ELSE None
        bssid == resolve_bssid(fc, addr1, addr2, addr3)
        payload == IF Len(frame) > hdr THEN Slice(frame, hdr, Len(frame))
                   ELSE <<>>
        r3 == r2 \cup (IF Len(frame) > hdr THEN {Need(hdr, frame)} ELSE {})
        signal == radiotap_signal(data)
        s == signal.value
        ssid == parse_ssid(kind_bits, subtype, payload)
        ds == IF kind_bits = 0 THEN parse_ds_channel(subtype, payload)
              ELSE [value |-> None, reads |-> {}]
    IN  [frame |-> Some([fc |-> fc, header_len |-> hdr, payload |-> payload,
                         addr1 |-> addr1, addr2 |-> addr2, addr3 |-> addr3,
                         bssid |-> bssid,
                         signal_gain |-> IF IsSome(s) THEN Unwrap(s).gain
                                         ELSE 1000,
                         signal_dbm |-> IF IsSome(s) THEN Unwrap(s).dbm
                                        ELSE None,
                         ssid |-> ssid.value,
                         channel |-> IF IsSome(ds.value) THEN ds.value
                                     ELSE IF IsSome(s) THEN Unwrap(s).channel
                                     ELSE None]),
         reads |-> r3 \cup signal.reads \cup ssid.reads \cup ds.reads]

\* is_eapol(subtype, payload)
is_eapol(subtype, payload) ==
    LET hdr_len == IF (subtype \div 8) % 2 = 1 THEN 26 ELSE 24
        llc == Slice(payload, hdr_len, Len(payload))
    IN  IF Len(payload) < hdr_len + 8 THEN FALSE
        ELSE IF Len(llc) < 8 THEN FALSE
        ELSE IF llc[1] # 170 \/ llc[2] # 170 \/ llc[3] # 3 THEN FALSE
        ELSE IF llc[4] # 0 \/ llc[5] # 0 \/ llc[6] # 0 THEN FALSE
        ELSE llc[7] * 256 + llc[8] = 34958

\* The first option alone.
OptOr_first(a, b) == a

\* frame.bssid.or(frame.addr3)
OptOr(a, b) == IF IsSome(a) THEN a ELSE b

PairKey(sta, bssid) ==
    IF IsSome(sta) /\ IsSome(bssid)
    THEN KeyPair(Unwrap(sta), Unwrap(bssid)) ELSE KeyNone

BssidKey(frame) ==
    LET b == OptOr(frame.bssid, frame.addr3)
    IN  IF IsSome(b) THEN KeyBssid(Unwrap(b)) ELSE KeyNone

PacketEvent(kind, rate_key, retry, frame, bssid) ==
    [kind |-> kind, rate_key |-> rate_key, retry |-> retry,
     amplitude |-> frame.signal_gain, src |-> frame.addr2, bssid |-> bssid]

classify_mgmt(subtype, retry, frame) ==
    CASE subtype = 8 ->
            Some(PacketEvent("Beacon", BssidKey(frame), retry, frame,
                             frame.bssid))
      [] subtype = 4 ->
            Some(PacketEvent("ProbeReq",
                             IF IsSome(frame.addr2)
                             THEN KeyTx(Unwrap(frame.addr2)) ELSE KeyNone,
                             retry, frame, frame.bssid))
      [] subtype = 5 ->
            Some(PacketEvent("ProbeResp", BssidKey(frame), retry, frame,
                             frame.bssid))
      [] subtype \in {0, 1, 2, 3} ->
            LET bssid == OptOr(frame.bssid, frame.addr3)
            IN  Some(PacketEvent("Assoc", PairKey(frame.addr2, bssid), retry,
                                 frame, bssid))
      [] subtype \in {10, 12} ->
            LET bssid == OptOr(frame.bssid, frame.addr3)
            IN  Some(PacketEvent("Deauth", PairKey(frame.addr2, bssid), retry,
                                 frame, bssid))
      [] OTHER -> None

\* classify_ctrl without the subtype 9 in the arm of Ack
classify_ctrl_13(subtype, retry, frame) ==
    CASE subtype = 11 ->
            Some(PacketEvent("Rts", KeyNone, retry, frame, frame.bssid))
      [] subtype = 12 ->
            Some(PacketEvent("Cts", KeyNone, retry, frame, frame.bssid))
      [] subtype = 13 ->
            Some(PacketEvent("Ack", KeyNone, retry, frame, frame.bssid))
      [] OTHER -> None

classify_ctrl(subtype, retry, frame) ==
    CASE subtype = 11 ->
            Some(PacketEvent("Rts", KeyNone, retry, frame, frame.bssid))
      [] subtype = 12 ->
            Some(PacketEvent("Cts", KeyNone, retry, frame, frame.bssid))
      [] subtype \in {13, 9} ->
            Some(PacketEvent("Ack", KeyNone, retry, frame, frame.bssid))
      [] OTHER -> None

classify_data(subtype, retry, frame) ==
    IF is_eapol(subtype, frame.payload)
    THEN LET bssid == OptOr(frame.bssid, frame.addr3)
         IN  Some(PacketEvent("Eapol", PairKey(frame.addr2, bssid), retry,
                              frame, bssid))
    ELSE Some(PacketEvent("DataTick", KeyNone, retry, frame, frame.bssid))

classify_frame(parsed) ==
    LET kind_bits == kind_bits_of(parsed.fc)
        subtype == subtype_of(parsed.fc)
        retry == (parsed.fc \div 2048) % 2 = 1
    IN  CASE kind_bits = 0 -> classify_mgmt(subtype, retry, parsed)
          [] kind_bits = 1 -> classify_ctrl(subtype, retry, parsed)
          [] kind_bits = 2 -> classify_data(subtype, retry, parsed)
          [] OTHER -> None

role_for_frame(frame) ==
    IF IsSome(frame.addr2) /\ IsSome(frame.bssid)
    THEN IF frame.addr2 = frame.bssid THEN "Ap" ELSE "Client"
    ELSE "Unknown"

(***************************************************************************)
(* Packets.  A packet is a radiotap header followed by an 802.11 frame,    *)
(* cut at any length.                                                      *)
(***************************************************************************)
Broadcast == <<255, 255, 255, 255, 255, 255>>

\* No field present, declared length 8
RtPlain == <<0, 0, 8, 0, 0, 0, 0, 0>>
\* Flags, rate, channel (2437 MHz) and antenna signal (-40 dBm), length 16
RtSignal == <<0, 0, 16, 0, 46, 0, 0, 0, 0, 2, 133, 9, 160, 0, 216, 0>>
\* TSFT and antenna signal declared present in a header of length 8
RtTsft == <<0, 0, 8, 0, 33, 0, 0, 0>>
\* Channel declared present in a header of length 10
RtChannel == <<0, 0, 10, 0, 8, 0, 0, 0, 108, 9>>
\* A declared length beyond any packet of the model
RtLong == <<0, 0, 200, 0, 0, 0, 0, 0>>
\* A declared length of 0: the frame starts at the first byte
RtZero == <<>>

RtHeaders == {RtPlain, RtSignal, RtTsft, RtChannel, RtLong, RtZero}

\* The 24 bytes of a header with three addresses
Header(fc0, fc1, addr1, addr2, addr3) ==
    <<fc0, fc1, 0, 0>> \o addr1 \o addr2 \o addr3 \o <<0, 0>>

\* The timestamp, interval and capabilities of a beacon or probe response
Fixed12 == <<0, 0, 0, 0, 0, 0, 0, 0, 100, 0, 1, 4>>

\* LLC/SNAP with the ethertype of EAPOL, and with that of IPv4
LlcEapol == <<170, 170, 3, 0, 0, 0, 136, 142>>
LlcIpv4 == <<170, 170, 3, 0, 0, 0, 8, 0>>

\* n bytes of zero
Zeros(n) == [i \in 1..n |-> 0]

Beacon == Header(128, 0, Broadcast, M1, M1) \o Fixed12
              \o <<0, 1, 97, 3, 1, 6>>
BeaconHidden == Header(128, 0, Broadcast, M1, M1) \o Fixed12
              \o <<1, 1, 2, 0, 0>>
BeaconRaw == Header(128, 8, Broadcast, M1, M1) \o Fixed12
              \o <<0, 2, 255, 97, 3, 0, 3, 9, 11>>
ProbeReq == Header(64, 0, Broadcast, M2, Broadcast) \o <<0, 1, 98>>
Auth == Header(176, 0, M1, M2, M1)
\* Data frames with (toDS, fromDS) = (0,0), (0,1), (1,0), (1,1)
Data00 == Header(8, 0, M2, M3, M1) \o LlcIpv4
Data01 == Header(8, 2, M2, M1, M3) \o LlcIpv4
Data10 == Header(8, 1, M1, M2, M3) \o LlcEapol
Data11 == Header(8, 3, M1, M2, M3) \o Zeros(6) \o LlcIpv4
\* QoS data to the AP, EAPOL after the 26 bytes of its header
QosEapol == Header(136, 1, M1, M2, M3) \o <<0, 0>> \o LlcEapol \o Zeros(4)
\* Data whose payload holds the LLC/SNAP of EAPOL 24 bytes further on
DataFar == Header(8, 1, M1, M2, M3) \o LlcIpv4 \o Zeros(16) \o LlcEapol
\* The same between two access points, (toDS,fromDS) = (1,1)
DataFar11 == Header(8, 3, M1, M2, M3) \o Zeros(24) \o LlcEapol
Rts == <<180, 0, 0, 0>> \o M1 \o M2
Ack == <<212, 0, 0, 0>> \o M2
\* The reserved frame type
Reserved == Header(12, 0, M1, M2, M3)

Frames ==
    {Beacon, BeaconHidden, BeaconRaw, ProbeReq, Auth, Data00, Data01, Data10,
     Data11, QosEapol, DataFar, DataFar11, Rts, Ack, Reserved}

Prefixes(p) == {SubSeq(p, 1, n) : n \in 0..Len(p)}

\* A frame of every type and subtype, with the retry bit clear and set
TypedFrames ==
    {Header(4 * type + 16 * subtype, fc1, M1, M2, M3) \o LlcIpv4 :
        type \in 0..3, subtype \in 0..15, fc1 \in {0, 8}}

Packets ==
    UNION {Prefixes(rt \o f) : rt \in RtHeaders, f \in Frames}
    \cup {RtPlain \o f : f \in TypedFrames}

(***************************************************************************)
(* The decoder on its own: a packet is decoded and the frame classified,   *)
(* as the body of the capture loop does (sniffer.rs 48-53).  The decoder   *)
(* keeps no state, so one packet per behaviour covers it.                  *)
(***************************************************************************)
CallDecode(data) ==
    LET r == parse_radiotap_and_frame(data)
    IN  /\ call = NoCall
        /\ call' = [op |-> "decode", data |-> data, frame |-> r.frame,
                    reads |-> r.reads,
                    evt |-> IF IsSome(r.frame)
                            THEN classify_frame(Unwrap(r.frame)) ELSE None]
        /\ UNCHANGED <<now, window, limiter, passLog, allowedAt>>
        /\ UNCHANGED <<audioVars, pipeVars, settings, flagVars, trackerVars>>
        /\ UNCHANGED <<lockVars, handleVars>>

DecoderNext == \E data \in Packets : CallDecode(data)

DecoderSpec == WindowInit /\ [][DecoderNext]_vars

\* observe_device calling observe only for a frame that classifies
observe_device_classified(dev, scache, ccache, t, frame) ==
    IF IsSome(frame.addr2) /\ IsSome(classify_frame(frame))
    THEN observe(dev, scache, ccache, t, Unwrap(frame.addr2), frame.bssid,
                 role_for_frame(frame), frame.signal_dbm, frame.ssid,
                 frame.channel)
    ELSE [devices |-> dev, ssid_cache |-> scache, channel_cache |-> ccache]

\* observe_device(tracker, frame) at instant t
observe_device(dev, scache, ccache, t, frame) ==
    IF IsSome(frame.addr2)
    THEN observe(dev, scache, ccache, t, Unwrap(frame.addr2), frame.bssid,
                 role_for_frame(frame), frame.signal_dbm, frame.ssid,
                 frame.channel)
    ELSE [devices |-> dev, ssid_cache |-> scache, channel_cache |-> ccache]

(***************************************************************************)
(* The capture loop (sniffer.rs 46-62) beside the web handlers that change *)
(* the blocklist and the settings.  One iteration is two steps, since the  *)
(* other threads run between observe_device and tx.send: the packet is     *)
(* decoded and the device observed, then the frame is classified and its   *)
(* event sent.  A packet that does not decode leaves the loop at           *)
(* next_packet.  The consumer is not running: the channel fills up to      *)
(* MaxPending events.                                                      *)
(***************************************************************************)
SnifferPackets ==
    {RtSignal \o Beacon, RtPlain \o Data10, RtPlain \o Reserved,
     RtPlain \o Rts, RtPlain \o Ack, SubSeq(RtPlain \o Beacon, 1, 31),
     SubSeq(RtPlain, 1, 3)}

\* A packet that does not decode ends the loop.
SnifferPacket_stop(data) ==
    /\ sniffer.pc = "next_packet"
    /\ call' = [op |-> "packet", data |-> data]
    /\ LET r == parse_radiotap_and_frame(data)
       IN  IF IsSome(r.frame)
           THEN LET frame == Unwrap(r.frame)
                    o == observe_device(devices, ssid_cache, channel_cache,
                                        now, frame)
                IN  /\ \A m \in DOMAIN devices : devices[m].frames < MaxFrames
                    /\ sniffer' = [sniffer EXCEPT !.pc = "classify",
                                                  !.frame = r.frame]
                    /\ devices' = o.devices
                    /\ ssid_cache' = o.ssid_cache
                    /\ channel_cache' = o.channel_cache
           ELSE /\ sniffer' = [sniffer EXCEPT !.pc = "exited"]
                /\ UNCHANGED <<devices, ssid_cache, channel_cache>>
    /\ UNCHANGED <<packet_rx, data_counter, cons, packet_notifier, blocked>>
    /\ UNCHANGED <<listeners, lockVars, handleVars>>
    /\ UNCHANGED <<audioVars, now, shaperVars, passLog, allowedAt, settings,
                   flagVars>>

\* cap.next_packet() returns Ok(packet): parse_radiotap_and_frame and
\* observe_device.  call keeps the packet the loop has read.
SnifferPacket(data) ==
    /\ sniffer.pc = "next_packet"
    /\ call' = [op |-> "packet", data |-> data]
    /\ LET r == parse_radiotap_and_frame(data)
       IN  IF IsSome(r.frame)
           THEN LET frame == Unwrap(r.frame)
                    o == observe_device(devices, ssid_cache, channel_cache,
                                        now, frame)
                IN  /\ \A m \in DOMAIN devices : devices[m].frames < MaxFrames
                    /\ sniffer' = [sniffer EXCEPT !.pc = "classify",
                                                  !.frame = r.frame]
                    /\ devices' = o.devices
                    /\ ssid_cache' = o.ssid_cache
                    /\ channel_cache' = o.channel_cache
           ELSE UNCHANGED <<sniffer, devices, ssid_cache, channel_cache>>
    /\ UNCHANGED <<packet_rx, data_counter, cons, packet_notifier, blocked>>
    /\ UNCHANGED <<listeners, lockVars, handleVars>>
    /\ UNCHANGED <<audioVars, now, shaperVars, passLog, allowedAt, settings,
                   flagVars>>

\* classify_frame and tx.send: the loop is back at next_packet
SnifferClassify ==
    /\ sniffer.pc = "classify"
    /\ LET evt == classify_frame(Unwrap(sniffer.frame))
       IN  IF IsSome(evt)
           THEN /\ Len(packet_rx) < MaxPending
                /\ Unwrap(evt).kind = "DataTick" => data_counter < MaxCounter
                /\ packet_rx' = Append(packet_rx, Unwrap(evt))
           ELSE UNCHANGED packet_rx
    /\ sniffer' = [sniffer EXCEPT !.pc = "next_packet", !.frame = None]
    /\ UNCHANGED <<data_counter, cons, packet_notifier, listeners, lockVars, handleVars>>
    /\ UNCHANGED <<audioVars, now, shaperVars, historyVars, settings, flagVars,
                   trackerVars>>

SnifferNext ==
    \/ \E data \in SnifferPackets : SnifferPacket(data)
    \/ SnifferClassify
    \/ \E body \in EventsBodies : UpdateEvents(body)
    \/ \E toggles \in PipeToggles : PipeSetMany(toggles)

SnifferSpec == WindowInit /\ [][SnifferNext]_vars

(***************************************************************************)
(* C17.  For every successfully decoded frame whose transmitter address    *)
(* (addr2) is resolvable, the capture loop calls DeviceTracker.observe     *)
(* exactly once, before the frame's event (if any) is handed to the        *)
(* consumer and independently of whether classification produces an event, *)
(* of the blocklist and of the per-kind enable toggles.  A call of observe *)
(* for a MAC is counted by the device's frame count.  The step that        *)
(* decodes a frame counts it for its addr2 and for no other device and     *)
(* sends nothing; no other step counts anything; and the channel takes an  *)
(* event only in the step that follows, the event of the frame in hand.    *)
(***************************************************************************)
C17_Count(dev, m) == IF m \in DOMAIN dev THEN dev[m].frames ELSE 0

C17_Decoded == sniffer.pc = "next_packet" /\ sniffer'.pc = "classify"

C17_Step ==
    /\ C17_Decoded =>
          LET frame == Unwrap(sniffer'.frame)
          IN  /\ packet_rx' = packet_rx
              /\ IsSome(frame.addr2) => Unwrap(frame.addr2) \in DOMAIN devices'
              /\ \A m \in DOMAIN devices' :
                    C17_Count(devices', m) =
                        C17_Count(devices, m)
                        + (IF frame.addr2 = Some(m) THEN 1 ELSE 0)
    /\ ~C17_Decoded => devices' = devices
    /\ packet_rx' # packet_rx =>
          /\ sniffer.pc = "classify"
          /\ sniffer'.pc = "next_packet"
          /\ \E evt \in {packet_rx'[Len(packet_rx')]} :
                /\ packet_rx' = Append(packet_rx, evt)
                /\ evt.src = Unwrap(sniffer.frame).addr2

C17_ObserveOnce == [][C17_Step]_vars

\* A frame of the reserved type from M2, which classifies to no event, is in
\* hand while M2 is blocked and a kind is disabled: M2 was observed for it
\* and for the frame before, and nothing was sent.
C17_Witness ==
    /\ sniffer.pc = "classify"
    /\ kind_bits_of(Unwrap(sniffer.frame).fc) = 3
    /\ Unwrap(sniffer.frame).addr2 = Some(M2)
    /\ classify_frame(Unwrap(sniffer.frame)) = None
    /\ M2 \in blocked
    /\ \E k \in EventKinds : ~settings.enabled[k]
    /\ devices[M2].frames = 2
    /\ packet_rx = <<>>

(***************************************************************************)
(* C18.  The frame decoder returns unparseable for every input shorter     *)
(* than 4 bytes, every input shorter than its declared radiotap length     *)
(* plus 10, and every input whose 802.11 frame is shorter than its header  *)
(* length (10 for control, 26 for QoS data, 24 otherwise); and for no byte *)
(* sequence does the decoder, the radiotap walk or the information-element *)
(* walk read an index outside the buffer.  The lengths are computed here   *)
(* from the bytes of the packet.                                           *)
(***************************************************************************)
C18_RtLen(data) == data[3] + 256 * data[4]

C18_HeaderLen(data) ==
    LET fc0 == data[C18_RtLen(data) + 1]
        type == (fc0 \div 4) % 4
    IN  IF type = 1 THEN 10
        ELSE IF type = 2 /\ fc0 >= 128 THEN 26
        ELSE 24

C18_TooShort(data) ==
    \/ Len(data) < 4
    \/ Len(data) < C18_RtLen(data) + 10
    \/ Len(data) - C18_RtLen(data) < C18_HeaderLen(data)

C18_Decoder ==
    call.op = "decode" =>
        /\ C18_TooShort(call.data) => call.frame = None
        /\ \A read \in call.reads : read[1] <= read[2]

\* A beacon cut one byte short of its 24-byte header, behind a radiotap
\* header whose 8 bytes are all there, was rejected after its frame control
\* was read.
C18_Witness ==
    /\ call.op = "decode"
    /\ call.data = SubSeq(RtPlain \o Beacon, 1, 31)
    /\ call.frame = None
    /\ <<2, 23>> \in call.reads

(***************************************************************************)
(* C19.  BSSID resolution: for a data frame the decoded BSSID is addr3     *)
(* when (toDS,fromDS) = (0,0), addr2 when (0,1), addr1 when (1,0) and none *)
(* when (1,1); for a management frame it is addr3; for a control frame and *)
(* for the reserved type it is none.  The addresses and the two bits are   *)
(* taken here from the bytes of the packet.                                *)
(***************************************************************************)
C19_Addr(data, k) ==
    LET at == C18_RtLen(data) + 4 + 6 * (k - 1)
    IN  Some(SubSeq(data, at + 1, at + 6))

C19_Expected(data) ==
    LET rt == C18_RtLen(data)
        type == (data[rt + 1] \div 4) % 4
        tods == data[rt + 2] % 2
        fromds == (data[rt + 2] \div 2) % 2
    IN  CASE type = 0 -> C19_Addr(data, 3)
          [] type = 2 /\ <<tods, fromds>> = <<0, 0>> -> C19_Addr(data, 3)
          [] type = 2 /\ <<tods, fromds>> = <<0, 1>> -> C19_Addr(data, 2)
          [] type = 2 /\ <<tods, fromds>> = <<1, 0>> -> C19_Addr(data, 1)
          [] OTHER -> None

C19_Bssid ==
    call.op = "decode" /\ IsSome(call.frame) =>
        Unwrap(call.frame).bssid = C19_Expected(call.data)

\* A data frame from the distribution system, (toDS,fromDS) = (0,1), with
\* three different addresses: its BSSID is its addr2.
C19_Witness ==
    /\ call.op = "decode"
    /\ call.data = RtSignal \o Data01
    /\ IsSome(call.frame)
    /\ Unwrap(call.frame).bssid = Some(M1)
    /\ Unwrap(call.frame).addr1 = Some(M2)
    /\ Unwrap(call.frame).addr3 = Some(M3)

(***************************************************************************)
(* C20.  A data frame whose eight bytes immediately following its MAC      *)
(* header (frame offset 24 for non-QoS, 26 for QoS) are exactly            *)
(* AA AA 03 00 00 00 88 8E is classified as Eapol, and a data frame in     *)
(* which any one of those bytes differs is classified as DataTick.         *)
(***************************************************************************)
C20_Llc(data) ==
    LET at == C18_RtLen(data) + C18_HeaderLen(data)
    IN  IF Len(data) >= at + 8 THEN SubSeq(data, at + 1, at + 8) ELSE <<>>

C20_Eapol ==
    (/\ call.op = "decode"
     /\ IsSome(call.frame)
     /\ (Unwrap(call.frame).fc \div 4) % 4 = 2) =>
        /\ IsSome(call.evt)
        /\ Unwrap(call.evt).kind =
              IF C20_Llc(call.data) = <<170, 170, 3, 0, 0, 0, 136, 142>>
              THEN "Eapol" ELSE "DataTick"

(***************************************************************************)
(* C21.  classify_frame maps frame type/subtype to event kind exactly per  *)
(* the table: mgmt 8 Beacon, mgmt 4 ProbeReq, mgmt 5 ProbeResp, mgmt 0-3   *)
(* Assoc, mgmt 10 and 12 Deauth, ctrl 11 Rts, ctrl 12 Cts, ctrl 9 and 13   *)
(* Ack, every data frame Eapol or DataTick; every other management or      *)
(* control subtype and the reserved type 3 yield no event; the event's     *)
(* retry flag equals frame-control bit 0x0800.  Type, subtype and the bit  *)
(* are taken here from the two frame-control bytes of the packet.          *)
(***************************************************************************)
C21_Kinds(type, subtype) ==
    CASE type = 0 /\ subtype = 8 -> {"Beacon"}
      [] type = 0 /\ subtype = 4 -> {"ProbeReq"}
      [] type = 0 /\ subtype = 5 -> {"ProbeResp"}
      [] type = 0 /\ subtype \in 0..3 -> {"Assoc"}
      [] type = 0 /\ subtype \in {10, 12} -> {"Deauth"}
      [] type = 1 /\ subtype = 11 -> {"Rts"}
      [] type = 1 /\ subtype = 12 -> {"Cts"}
      [] type = 1 /\ subtype \in {9, 13} -> {"Ack"}
      [] type = 2 -> {"Eapol", "DataTick"}
      [] OTHER -> {}

C21_Table ==
    call.op = "decode" /\ IsSome(call.frame) =>
        LET rt == C18_RtLen(call.data)
            fc0 == call.data[rt + 1]
            fc1 == call.data[rt + 2]
            kinds == C21_Kinds((fc0 \div 4) % 4, fc0 \div 16)
        IN  IF kinds = {}
            THEN call.evt = None
            ELSE /\ IsSome(call.evt)
                 /\ Unwrap(call.evt).kind \in kinds
                 /\ Unwrap(call.evt).retry = ((fc1 \div 8) % 2 = 1)

\* A control frame of subtype 9 with the retry bit set became an Ack event
\* marked as a retry.
C21_Witness ==
    /\ call.op = "decode"
    /\ call.data = RtPlain \o Header(148, 8, M1, M2, M3) \o LlcIpv4
    /\ IsSome(call.evt)
    /\ Unwrap(call.evt).kind = "Ack"
    /\ Unwrap(call.evt).retry

(***************************************************************************)
(* C22.  The rate key of a classified event is chosen by kind:             *)
(* Bssid(bssid or addr3) for Beacon and ProbeResp, Tx(addr2) for ProbeReq, *)
(* Pair(addr2, bssid or addr3) for Assoc, Deauth and Eapol when both       *)
(* addresses are known and None otherwise, and None for Rts, Cts, Ack and  *)
(* DataTick; so events of the last four kinds share one rate-limit entry   *)
(* per kind across all devices.  The addresses are taken here from the     *)
(* bytes of the packet.                                                    *)
(***************************************************************************)
C22_Bssid(data) ==
    IF IsSome(C19_Expected(data)) THEN C19_Expected(data)
    ELSE C19_Addr(data, 3)

C22_Key(kind, data) ==
    CASE kind \in {"Beacon", "ProbeResp"} ->
            <<"Bssid", Unwrap(C22_Bssid(data))>>
      [] kind = "ProbeReq" -> <<"Tx", Unwrap(C19_Addr(data, 2))>>
      [] kind \in {"Assoc", "Deauth", "Eapol"} ->
            <<"Pair", Unwrap(C19_Addr(data, 2)), Unwrap(C22_Bssid(data))>>
      [] kind \in {"Rts", "Cts", "Ack", "DataTick"} -> <<"None">>

C22_RateKey ==
    call.op = "decode" /\ IsSome(call.evt) =>
        Unwrap(call.evt).rate_key = C22_Key(Unwrap(call.evt).kind, call.data)

\* An EAPOL frame between two access points has no BSSID: its key is the
\* pair of its addr2 and addr3.
C22_Witness ==
    /\ call.op = "decode"
    /\ IsSome(call.evt)
    /\ Unwrap(call.evt).kind = "Eapol"
    /\ Unwrap(call.frame).bssid = None
    /\ Unwrap(call.evt).rate_key = <<"Pair", M2, M3>>

(***************************************************************************)
(* The decoder over every value of the antenna signal: packets whose       *)
(* radiotap header holds the signal byte alone, and packets without one.   *)
(***************************************************************************)
\* Antenna signal declared present, length 9: the byte b is the signal
RtDbm(b) == <<0, 0, 9, 0, 32, 0, 0, 0, b>>

GainPackets ==
    {RtDbm(b) \o Rts : b \in 0..255}
    \cup {RtPlain \o Rts, RtTsft \o Rts, RtChannel \o Rts}

GainNext == \E data \in GainPackets : CallDecode(data)

GainSpec == WindowInit /\ [][GainNext]_vars

(***************************************************************************)
(* C23.  The gain derived from an antenna-signal value is monotonic        *)
(* non-decreasing in dBm and always within [0.2,1.0]: 0.2 at or below -90  *)
(* dBm, 1.0 at or above -30 dBm, linear in between (0.6 at -60 dBm); a     *)
(* frame with no signal field gets gain 1.0, so every event amplitude lies *)
(* in [0.2,1.0].  Gains are in thousandths; a radiotap header of length 9  *)
(* is one of RtDbm and its last byte the signal.                           *)
(***************************************************************************)
C23_HasSignal(data) == C18_RtLen(data) = 9

C23_Dbm(data) == IF data[9] >= 128 THEN data[9] - 256 ELSE data[9]

C23_Gain ==
    call.op = "decode" /\ IsSome(call.evt) =>
        LET a == Unwrap(call.evt).amplitude
            dbm == C23_Dbm(call.data)
        IN  /\ a >= 200 /\ a <= 1000
            /\ ~C23_HasSignal(call.data) => a = 1000
            /\ C23_HasSignal(call.data) =>
                  /\ Unwrap(call.frame).signal_dbm = Some(dbm)
                  /\ dbm <= -90 => a = 200
                  /\ dbm >= -30 => a = 1000
                  /\ dbm = -60 => a = 600
                  /\ (dbm > -90 /\ dbm < -30) =>
                        /\ 3 * (a - 200) <= 40 * (dbm + 90)
                        /\ 40 * (dbm + 90) < 3 * (a - 200 + 1)
                  /\ \A d \in -128..dbm : dbm_to_gain(d) <= a

\* A frame received at -60 dBm gave an event of amplitude 0.6.
C23_Witness ==
    /\ call.op = "decode"
    /\ call.data = RtDbm(196) \o Rts
    /\ Unwrap(call.frame).signal_dbm = Some(-60)
    /\ Unwrap(call.evt).amplitude = 600

(***************************************************************************)
(* C24.  AudioHandle.play(id, overlay_retry, gain) appends to the back of  *)
(* the sample queue every sample of the identified buffer, in order, each  *)
(* multiplied by gain clamped to [0,1.2] (gain 2.0 applies 1.2, gain -1.0  *)
(* applies 0.0), followed, iff overlay_retry is true, by every sample of   *)
(* the glitch buffer scaled the same way; it removes or reorders nothing   *)
(* already queued.  Samples and gains are in thousandths.                  *)
(***************************************************************************)
C24_Gain(g) == IF g < 0 THEN 0 ELSE IF g > 1200 THEN 1200 ELSE g

C24_Buffer(id, g) ==
    [i \in 1..Len(Palette(id)) |-> (Palette(id)[i] * C24_Gain(g)) \div 1000]

C24_Appended ==
    C24_Buffer(playArgs.id, playArgs.gain)
    \o (IF playArgs.overlay_retry
        THEN C24_Buffer("RetryGlitch", playArgs.gain) ELSE <<>>)

\* At the end of play the queue ends with what the call had to append.
C24_Done ==
    playPc = "unlock" =>
        /\ Len(queue) >= Len(C24_Appended)
        /\ SubSeq(queue, Len(queue) - Len(C24_Appended) + 1, Len(queue))
              = C24_Appended

\* While play runs, from its call to the drop of its guard, the queue changes
\* only by its two appends, each at the back.
C24_Step ==
    /\ (playPc = "sound" /\ playPc' # "sound") =>
          /\ queue' = queue \o C24_Buffer(playArgs.id, playArgs.gain)
          /\ playPc' = IF playArgs.overlay_retry THEN "glitch" ELSE "unlock"
    /\ (playPc = "glitch" /\ playPc' # "glitch") =>
          /\ queue' = queue \o C24_Buffer("RetryGlitch", playArgs.gain)
          /\ playPc' = "unlock"
    /\ (playPc \in {"sound", "glitch", "unlock"}) =>
          /\ Len(queue') >= Len(queue)
          /\ SubSeq(queue', 1, Len(queue)) = queue
    /\ (playPc' # playPc /\ playPc \in {"idle", "lock", "unlock"}) =>
          queue' = queue

C24_Play == []C24_Done /\ [][C24_Step]_vars

\* play(BeaconTick, true, 2.0) found one sample queued and ends with that
\* sample in front of the tick and the glitch at 1.2 times their volume.
C24_Witness ==
    /\ playPc = "unlock"
    /\ playArgs = [id |-> "BeaconTick", overlay_retry |-> TRUE, gain |-> 2000]
    /\ Len(queue) = 5
    /\ SubSeq(queue, 2, 5) = <<96, -96, 60, -60>>

(***************************************************************************)
(* C25.  A callback invocation over n output slots pops exactly one sample *)
(* per slot: it removes the first min(n, queue length) samples from the    *)
(* front of the queue in FIFO order, writes each clamped to [-1.0,1.0]     *)
(* into the slots in order, and writes 0.0 into every remaining slot;      *)
(* popping from an empty queue yields exactly 0.0, does not fail and       *)
(* leaves the queue empty.  call.queue is the queue the invocation found   *)
(* and cbData the slots written so far.  The queue length is that of       *)
(* call.queue as long as no play has appended during the invocation, which *)
(* is what C25_SoFar says of a state; every pop keeps it.                  *)
(***************************************************************************)
C25_Clamped(v) == IF v < -1000 THEN -1000 ELSE IF v > 1000 THEN 1000 ELSE v

C25_SoFar ==
    /\ call.op = "write_samples"
    /\ LET done == call.n - cbLeft
           taken == IF done < Len(call.queue) THEN done ELSE Len(call.queue)
       IN  /\ Len(cbData) = done
           /\ \A i \in 1..done :
                 cbData[i] =
                     IF i <= taken THEN C25_Clamped(call.queue[i]) ELSE 0
           /\ queue = SubSeq(call.queue, taken + 1, Len(call.queue))

\* The step in which pop_sample takes the front of the queue
C25_Pop == cbPc = "locked" /\ cbPc' # "locked"

C25_Step ==
    /\ (cbPc = "idle" /\ cbPc' = "slot") => C25_SoFar'
    /\ C25_Pop =>
          /\ cbLeft' = cbLeft - 1
          /\ IF queue = <<>>
             THEN cbData' = Append(cbData, 0) /\ queue' = <<>>
             ELSE /\ cbData' = Append(cbData, C25_Clamped(Head(queue)))
                  /\ queue' = Tail(queue)
          /\ cbPc' = IF cbLeft' = 0 THEN "idle" ELSE "slot"
          /\ C25_SoFar => C25_SoFar'
    /\ (~C25_Pop /\ playPc' = playPc) => queue' = queue

C25_Callback == [][C25_Step]_vars

\* An invocation over two slots found one sample queued: it wrote the sample
\* and a zero, and left the queue empty.
C25_Witness ==
    /\ cbPc = "idle"
    /\ call.op = "write_samples"
    /\ call.n = 2
    /\ Len(call.queue) = 1
    /\ call.queue[1] # 0
    /\ cbData = <<call.queue[1], 0>>
    /\ queue = <<>>
    /\ playPc = "idle"

(***************************************************************************)
(* The capture thread from its start (sniffer.rs 10-96): run opens the     *)
(* device; when run returns an error spawn_sniffer calls                   *)
(* run_without_rfmon, which opens it again; when that returns an error the *)
(* thread ends.  Either loop reads packets, and next_packet can return a   *)
(* timeout or another error.  The audio callback and a web handler run     *)
(* beside the thread.                                                      *)
(***************************************************************************)
CaptureInit ==
    /\ LocksInit /\ HandlesInit
    /\ AudioInit /\ ShaperInit /\ FlagsInit /\ TrackerInit
    /\ settings = DefaultSettings
    /\ packet_rx = <<>>
    /\ data_counter = 0
    /\ cons = [pc |-> "recv"]
    /\ packet_notifier = <<>>
    /\ listeners = 0
    /\ sniffer = [pc |-> "open", frame |-> None, fn |-> "run", opens |-> 0]

\* A failed open is tried again by the function that failed.
CaptureOpen_again(ok) ==
    /\ sniffer.pc = "open"
    /\ sniffer' = [sniffer EXCEPT !.opens = @ + 1,
                                  !.pc = IF ok THEN "next_packet" ELSE "open"]
    /\ UNCHANGED <<packet_rx, data_counter, cons, packet_notifier, listeners>>
    /\ UNCHANGED <<lockVars, handleVars>>
    /\ UNCHANGED <<audioVars, now, shaperVars, historyVars, settings, flagVars,
                   trackerVars>>

\* Capture::from_device(interface)?...open()? in run and in run_without_rfmon:
\* an error leaves the function, and spawn_sniffer goes on to
\* run_without_rfmon or to the end of the thread.
CaptureOpen(ok) ==
    /\ sniffer.pc = "open"
    /\ sniffer' = [sniffer EXCEPT
                      !.opens = @ + 1,
                      !.pc = IF ok THEN "next_packet"
                             ELSE IF sniffer.fn = "run" THEN "open"
                             ELSE "exited",
                      !.fn = IF ok THEN @ ELSE "run_without_rfmon"]
    /\ UNCHANGED <<packet_rx, data_counter, cons, packet_notifier, listeners>>
    /\ UNCHANGED <<lockVars, handleVars>>
    /\ UNCHANGED <<audioVars, now, shaperVars, historyVars, settings, flagVars,
                   trackerVars>>

\* The errors of cap.next_packet(): the timeout and any other one
CaptureErrors == {"TimeoutExpired", "Other"}

\* cap.next_packet() returns Err: both arms of the match continue, the second
\* after a warning.  call keeps the error and the function it came up in.
CaptureError(err) ==
    /\ sniffer.pc = "next_packet"
    /\ call' = [op |-> "next_packet", err |-> err, fn |-> sniffer.fn]
    /\ UNCHANGED <<packet_rx, data_counter, cons, packet_notifier, sniffer>>
    /\ UNCHANGED <<listeners, lockVars, handleVars>>
    /\ UNCHANGED <<audioVars, now, shaperVars, passLog, allowedAt, settings,
                   flagVars, trackerVars>>

CaptureNext ==
    \/ \E ok \in BOOLEAN : CaptureOpen(ok)
    \/ \E err \in CaptureErrors : CaptureError(err)
    \/ \E data \in SnifferPackets : SnifferPacket(data)
    \/ SnifferClassify
    \/ CallbackInvoke(1)
    \/ PopLock
    \/ PopFront
    \/ \E toggles \in PipeToggles : PipeSetMany(toggles)

CaptureSpec == CaptureInit /\ [][CaptureNext]_vars

(***************************************************************************)
(* C26.  When opening the primary capture fails, the capture thread makes  *)
(* exactly one fallback open attempt; if that also fails the capture       *)
(* thread terminates without further attempts, while the audio callback    *)
(* and the API keep running.                                               *)
(***************************************************************************)
C26_Attempts ==
    /\ sniffer.opens <= 2
    /\ sniffer.fn = "run" => sniffer.opens <= 1
    /\ (sniffer.fn = "run_without_rfmon" /\ sniffer.pc = "open") =>
          sniffer.opens = 1
    /\ sniffer.pc = "exited" =>
          /\ sniffer.fn = "run_without_rfmon"
          /\ sniffer.opens = 2
          /\ ENABLED CallbackInvoke(1) \/ ENABLED PopLock \/ ENABLED PopFront
          /\ \A toggles \in PipeToggles : ENABLED PipeSetMany(toggles)

C26_Step ==
    /\ (sniffer.pc = "open" /\ sniffer' # sniffer) =>
          /\ sniffer'.opens = sniffer.opens + 1
          /\ sniffer'.pc \in
                IF sniffer.fn = "run" THEN {"next_packet", "open"}
                ELSE {"next_packet", "exited"}
          /\ sniffer'.fn = IF sniffer'.pc = "next_packet" THEN sniffer.fn
                           ELSE "run_without_rfmon"
    /\ sniffer.pc # "open" => sniffer'.opens = sniffer.opens
    /\ sniffer.pc = "exited" =>
          /\ sniffer' = sniffer
          /\ UNCHANGED <<devices, ssid_cache, channel_cache, packet_rx>>

C26_Fallback == []C26_Attempts /\ [][C26_Step]_vars

\* Both opens failed: the thread has ended after its second attempt, and
\* the callback has since written a slot.
C26_Witness ==
    /\ sniffer.pc = "exited"
    /\ sniffer.opens = 2
    /\ DOMAIN devices = {}
    /\ cbPc = "idle"
    /\ cbData = <<0>>

(***************************************************************************)
(* C27.  A fatal (non-timeout) capture error that occurs while reading     *)
(* frames in the primary capture loop triggers one fallback attempt under  *)
(* the degraded capture mode, after which the capture thread terminates;   *)
(* only timeouts are retried in place.  call is the error next_packet      *)
(* returned and the function it returned it in, and the claim says where   *)
(* the thread is after the step.                                           *)
(***************************************************************************)
C27_Step ==
    (/\ call' # call
     /\ call'.op = "next_packet"
     /\ call'.fn = "run") =>
        IF call'.err = "TimeoutExpired"
        THEN sniffer' = sniffer
        ELSE /\ sniffer'.fn = "run_without_rfmon"
             /\ sniffer'.pc = "open"

C27_FatalError == [][C27_Step]_vars

(***************************************************************************)
(* C28.  A captured frame that fails to decode is silently skipped: it     *)
(* produces no event, no DeviceTracker.observe call and no change to       *)
(* tracker, shaper or queue state, and the capture loop goes on to read    *)
(* the next frame.  A packet fails to decode when it is shorter than its   *)
(* radiotap header and the 802.11 header behind it; call is the packet     *)
(* the loop has read in the step.                                          *)
(***************************************************************************)
C28_Read == sniffer.pc = "next_packet" /\ call' # call /\ call'.op = "packet"

C28_Step ==
    (C28_Read /\ C18_TooShort(call'.data)) =>
        /\ packet_rx' = packet_rx
        /\ \A m \in {M1, M2, M3} :
              C17_Count(devices', m) = C17_Count(devices, m)
        /\ UNCHANGED trackerVars
        /\ UNCHANGED <<shaperVars, passLog, allowedAt, data_counter>>
        /\ UNCHANGED <<audioVars, packet_notifier, listeners>>
        /\ sniffer' = sniffer
        /\ \E data \in SnifferPackets : ENABLED SnifferPacket(data)

C28_Skipped == [][C28_Step]_vars

\* The loop has read the beacon cut short after a frame of M2 was observed
\* and its event sent: the tracker and the channel are as that frame left
\* them and the loop is back at next_packet.
C28_Witness ==
    /\ call = [op |-> "packet", data |-> SubSeq(RtPlain \o Beacon, 1, 31)]
    /\ sniffer.pc = "next_packet"
    /\ DOMAIN devices = {M2}
    /\ devices[M2].frames = 1
    /\ Len(packet_rx) = 1

(***************************************************************************)
(* The handoff from the capture loop to the consumer (main.rs 49-67): the  *)
(* channel is mpsc::unbounded_channel, and up to MaxHandoff events wait in *)
(* it while the consumer works through them.  The events differ, so that   *)
(* their order shows.                                                      *)
(***************************************************************************)
MaxHandoff == 3

EvBeacon ==
    [kind |-> "Beacon", rate_key |-> KeyBssid(M1), retry |-> FALSE,
     amplitude |-> 600, src |-> Some(M1), bssid |-> Some(M1)]

HandoffEvents == {EvAck, EvBeacon}

\* sniffer.rs: let _ = tx.send(evt) on the unbounded sender
HandoffSend(evt) ==
    /\ Len(packet_rx) < MaxHandoff
    /\ packet_rx' = Append(packet_rx, evt)
    /\ UNCHANGED <<data_counter, cons, packet_notifier, listeners, sniffer>>
    /\ UNCHANGED <<lockVars, handleVars>>
    /\ UNCHANGED <<audioVars, now, shaperVars, historyVars, settings, flagVars,
                   trackerVars>>

HandoffNext ==
    \/ \E evt \in HandoffEvents : HandoffSend(evt)
    \/ ConsumerRecv
    \/ ConsumerAdmit
    \/ WriteSamples(MaxSlots)
    \/ \E d \in PipeSteps : ClockTick(d)
    \/ \E toggles \in PipeToggles : PipeSetMany(toggles)

HandoffSpec == WindowInit /\ [][HandoffNext]_vars

(***************************************************************************)
(* C29.  The capture-to-consumer handoff is an unbounded FIFO: the capture *)
(* loop's send never blocks however many events are pending, and while the *)
(* consumer runs it receives every sent event exactly once in capture      *)
(* order, so the gates see events in the order their frames were captured. *)
(* A send is possible whatever the consumer is doing and whatever waits in *)
(* the channel, below the bound of the model; the channel changes only by  *)
(* a send, which puts its event behind the others and leaves the consumer  *)
(* alone, or by the consumer at recv, which takes the event at the front;  *)
(* and the event the consumer holds is the one the gates then see.         *)
(***************************************************************************)
C29_CanSend ==
    Len(packet_rx) < MaxHandoff =>
        \A evt \in HandoffEvents : ENABLED HandoffSend(evt)

C29_Taken ==
    IF cons'.pc = "settings" THEN cons'.evt = Some(Head(packet_rx))
    ELSE call'.op = "consume" /\ call'.evt = Head(packet_rx)
                              /\ call'.gates = <<FALSE>>

C29_Step ==
    /\ packet_rx' # packet_rx =>
          \/ /\ Len(packet_rx') = Len(packet_rx) + 1
             /\ SubSeq(packet_rx', 1, Len(packet_rx)) = packet_rx
             /\ cons' = cons
          \/ /\ packet_rx # <<>>
             /\ packet_rx' = Tail(packet_rx)
             /\ cons.pc = "recv"
             /\ C29_Taken
    /\ (packet_rx' = packet_rx /\ cons' # cons) =>
          /\ cons.pc = "settings"
          /\ cons'.pc = "recv"
          /\ call'.op = "consume"
          /\ call'.evt = Unwrap(cons.evt)
          /\ Len(call'.gates) >= 2

C29_Fifo == []C29_CanSend /\ [][C29_Step]_vars

\* The beacon sent first has been through the gates and played; the
\* acknowledgement sent after it is in the consumer's hands, and two more
\* events wait in the order they were sent.
C29_Witness ==
    /\ call.op = "consume"
    /\ call.evt = EvBeacon
    /\ call.played
    /\ cons.pc = "settings"
    /\ cons.evt = Some(EvAck)
    /\ packet_rx = <<EvBeacon, EvAck>>

(***************************************************************************)
(* The notification channel (main.rs 38, 112-114; web.rs 427-445): the     *)
(* consumer sends on the broadcast channel, on which a websocket handler   *)
(* subscribes, receives and, when its socket fails, ends.  No client is    *)
(* connected at the start, and a connected one may stop receiving.         *)
(***************************************************************************)
NotifyInit ==
    /\ LocksInit /\ HandlesInit
    /\ AudioInit /\ ShaperInit /\ FlagsInit /\ TrackerInit
    /\ settings = DefaultSettings
    /\ packet_rx = <<>>
    /\ data_counter = 0
    /\ cons = [pc |-> "recv"]
    /\ packet_notifier = <<>>
    /\ listeners = 0
    /\ sniffer = [pc |-> "next_packet", frame |-> None, fn |-> "run",
                  opens |-> 1]

\* handle_ws: let mut rx = state.packet_tx.subscribe()
WsSubscribe ==
    /\ listeners = 0
    /\ listeners' = 1
    /\ UNCHANGED <<packet_rx, data_counter, cons, packet_notifier, sniffer>>
    /\ UNCHANGED <<audioVars, now, shaperVars, historyVars, settings, flagVars,
                   trackerVars, lockVars, handleVars>>

\* handle_ws: socket.send fails on the event rx.recv() returned; the loop
\* breaks and the receiver is dropped with what the channel kept for it.
WsClose ==
    /\ listeners = 1
    /\ packet_notifier # <<>>
    /\ web_sound_enabled
    /\ listeners' = 0
    /\ packet_notifier' = <<>>
    /\ UNCHANGED <<packet_rx, data_counter, cons, sniffer>>
    /\ UNCHANGED <<audioVars, now, shaperVars, historyVars, settings, flagVars,
                   trackerVars, lockVars, handleVars>>

NotifyNext ==
    \/ \E d \in PipeSteps : ClockTick(d)
    \/ \E evt \in HandoffEvents : SnifferSend(evt)
    \/ ConsumerRecv
    \/ ConsumerAdmit
    \/ WriteSamples(MaxSlots)
    \/ \E body \in SoundBodies : UpdateSound(body)
    \/ WsSubscribe
    \/ WsForward
    \/ WsClose

NotifySpec == NotifyInit /\ [][NotifyNext]_vars

(***************************************************************************)
(* C30.  Every event that survives all gates is offered to the             *)
(* notification channel (when web-notify is enabled) without ever blocking *)
(* the consumer: with zero listeners, or with a listener that has stopped  *)
(* reading, the send returns immediately and the consumer goes on to the   *)
(* next event.  The loop body can always run to its end, whatever the      *)
(* channel holds and whoever listens (the sample queue of the model has    *)
(* room up to MaxQueue), and recv can take the next event; the step that   *)
(* ends the loop body sends exactly when the event passed the five gates   *)
(* and web_sound_enabled is set; without a receiver the send leaves the    *)
(* empty channel as it is, and with one the event is the newest of the     *)
(* events the channel keeps, at most MaxNotify of them, the older ones     *)
(* behind it in their order.                                               *)
(***************************************************************************)
C30_Ready ==
    /\ (cons.pc = "settings" /\ Len(queue) <= MaxQueue) =>
          ENABLED ConsumerAdmit
    /\ (cons.pc = "recv" /\ packet_rx # <<>>) => ENABLED ConsumerRecv
    /\ listeners = 0 => packet_notifier = <<>>
    /\ Len(packet_notifier) <= MaxNotify

C30_Step ==
    (cons.pc = "settings" /\ cons' # cons) =>
        LET evt == Unwrap(cons.evt)
            gates == call'.gates
            pass == Len(gates) = Len(GateOrder) /\ gates[Len(GateOrder)]
            n == Len(packet_notifier)
            n2 == Len(packet_notifier')
        IN  /\ cons'.pc = "recv"
            /\ call'.op = "consume"
            /\ call'.evt = evt
            /\ call'.notified = (pass /\ web_sound_enabled)
            /\ listeners' = listeners
            /\ (~call'.notified \/ listeners = 0) =>
                   packet_notifier' = packet_notifier
            /\ (call'.notified /\ listeners > 0) =>
                   /\ n2 = IF n < MaxNotify THEN n + 1 ELSE MaxNotify
                   /\ packet_notifier'[n2] = evt
                   /\ \A i \in 1..(n2 - 1) :
                         packet_notifier'[i] = packet_notifier[i + n + 1 - n2]

C30_Offered == []C30_Ready /\ [][C30_Step]_vars

\* The beacon was sent while the channel was full of what its one receiver
\* had not read: the channel keeps the beacon, and the consumer has gone on
\* to the acknowledgement sent after it.
C30_Witness ==
    /\ call.op = "consume"
    /\ call.notified
    /\ call.listeners = 1
    /\ call.kept = MaxNotify
    /\ call.evt = EvBeacon
    /\ Len(packet_notifier) = MaxNotify
    /\ packet_notifier[MaxNotify] = EvBeacon
    /\ cons.pc = "settings"
    /\ cons.evt = Some(EvAck)

\* The beacon was sent while nobody listened: the channel is empty, and the
\* consumer has gone on to the acknowledgement sent after it.
C30_NoListener ==
    /\ call.op = "consume"
    /\ call.notified
    /\ call.listeners = 0
    /\ call.evt = EvBeacon
    /\ listeners = 0
    /\ packet_notifier = <<>>
    /\ cons.pc = "settings"
    /\ cons.evt = Some(EvAck)

(***************************************************************************)
(* The consumer beside update_events (main.rs 67-115, web.rs 301-318): a   *)
(* request sets the mode and two toggles.  The clock steps by 70 ms, which *)
(* is more than the gap of an acknowledgement in Sparse mode and less than *)
(* the one in Crowded mode.  The audio output is off.                      *)
(***************************************************************************)
SettingsBodies ==
    {[mode |-> Some("Sparse"),
      events |-> Some(<<[id |-> "Beacon", enabled |-> FALSE],
                        [id |-> "Rts", enabled |-> FALSE]>>)]}

SettingsSteps == {70}

SettingsEvents == {EvAck, EvBeacon, EvData}

\* The operator has turned the audio output off: nothing is played.
SettingsInit ==
    /\ LocksInit /\ HandlesInit
    /\ AudioInit /\ ShaperInit /\ TrackerInit /\ PipeInit
    /\ settings = DefaultSettings
    /\ audio_enabled = FALSE
    /\ web_sound_enabled = FALSE
    /\ volume_by_signal = FALSE

SettingsNext ==
    \/ \E d \in SettingsSteps : ClockTick(d)
    \/ \E evt \in SettingsEvents : SnifferSend(evt)
    \/ ConsumerRecv
    \/ ConsumerAdmit
    \/ \E body \in SettingsBodies : UpdateEvents(body)

SettingsSpec == SettingsInit /\ [][SettingsNext]_vars

(***************************************************************************)
(* C31.  The consumer never observes partially written event settings:     *)
(* for each event the enable check, the data-tick threshold, the window    *)
(* caps and the minimum gap are all taken from one snapshot of             *)
(* EventSettings, and an update_events request that changes the mode and   *)
(* several enable toggles is seen by the consumer either entirely or not   *)
(* at all.  The settings are at every moment those before a request or     *)
(* those after it, and the results of gates 2 to 5 of an event are the     *)
(* ones the settings of one moment give: the toggle of its kind, the       *)
(* threshold, the cap of its bucket and the gap of the mode.               *)
(***************************************************************************)
C31_After ==
    [mode |-> "Sparse",
     enabled |-> [k \in EventKinds |-> k \notin {"Beacon", "Rts"}]]

C31_Written == {DefaultSettings, C31_After}

C31_Whole == settings \in C31_Written

C31_Agrees(cs) ==
    LET evt == Unwrap(cons.evt)
        gates == call'.gates
        n == Len(gates)
        b == C4_Bucket(evt.kind)
        key == <<evt.kind, evt.rate_key>>
        N == IF cs.mode = "Crowded" THEN 100 ELSE 10
        cap == CapOf(IF cs.mode = "Crowded" THEN <<3, 2, 1>> ELSE <<5, 3, 1>>,
                     b)
        gap == IF evt.kind = "Ack"
               THEN (IF cs.mode = "Crowded" THEN 80 ELSE 40)
               ELSE min_interval_for(evt.kind, "Crowded")
        fresh == now - window.start < WindowMs
        counted == IF fresh THEN Count(window, b) ELSE 0
    IN  /\ n >= 2
        /\ gates[2] = cs.enabled[evt.kind]
        /\ (n >= 3 /\ evt.kind = "DataTick") =>
               gates[3] = (data_counter + 1 >= N)
        /\ n >= 4 => gates[4] = (counted < cap)
        /\ n = 5 =>
               gates[5] = (key \notin DOMAIN limiter
                           \/ now - limiter[key] >= gap)

C31_Step ==
    (cons.pc = "settings" /\ cons' # cons) =>
        \E cs \in C31_Written : cs = settings /\ C31_Agrees(cs)

C31_Snapshot == []C31_Whole /\ [][C31_Step]_vars

\* An acknowledgement was received 70 ms after the one before it; the request
\* came in before the loop body read the settings, and the event passed the
\* limiter with the gap of Sparse mode.
C31_Witness ==
    /\ call.op = "consume"
    /\ call.evt = EvAck
    /\ call.gates = <<TRUE, TRUE, TRUE, TRUE, TRUE>>
    /\ settings = C31_After
    /\ now = 70
    /\ limiter[<<"Ack", KeyNone>>] = 70
    /\ window.counts_ctrl = 2

(***************************************************************************)
(* The DeviceTracker lock by lock (devices.rs 53-193).  A call takes each  *)
(* RwLock in a step of its own, since it may have to wait for it, and      *)
(* releases it where its guard goes out of scope.  observe holds the write *)
(* lock of the device map from its second line to its end and takes the    *)
(* lock of a cache inside it; snapshot takes the four read locks one after *)
(* the other and drops them when it returns; allows, set_many and          *)
(* reset_counts take one lock.  A read lock is granted while no writer     *)
(* holds the lock, a write lock while nobody holds it.  The threads make  *)
(* up to MaxCalls calls between them.                                      *)
(***************************************************************************)
MaxCalls == 5

\* The calls made so far, over all threads
CallsMade ==
    calls["sniffer"].n + calls["consumer"].n + calls["web1"].n + calls["web2"].n

CanRead(l) == locks[l].writer = None

CanWrite(l) == locks[l].writer = None /\ locks[l].readers = {}

ReadLocked(lk, l, t) == [lk EXCEPT ![l].readers = @ \cup {t}]

WriteLocked(lk, l, t) == [lk EXCEPT ![l].writer = Some(t)]

\* The guard of t on lock l is dropped.
Unlocked(lk, l, t) ==
    [lk EXCEPT ![l] = [writer |-> IF @.writer = Some(t) THEN None ELSE @.writer,
                       readers |-> @.readers \ {t}]]

\* Every guard of t is dropped.
UnlockedAll(lk, t) ==
    [l \in DOMAIN lk |->
        [writer |-> IF lk[l].writer = Some(t) THEN None ELSE lk[l].writer,
         readers |-> lk[l].readers \ {t}]]

\* observe from `if let Some(ch) = channel` on: the entry takes the channel
\* of the frame, and the call goes on to the channel cache or to its end.
ToChannel(dev, f) ==
    LET e == dev[f.mac]
    IN  IF IsSome(f.channel)
        THEN [devices |-> [dev EXCEPT ![f.mac].channel = f.channel],
              pc |-> IF IsSome(f.bssid) THEN "channel_write" ELSE "return"]
        ELSE [devices |-> dev,
              pc |-> IF ~IsSome(e.channel) /\ IsSome(f.bssid)
                     THEN "channel_read" ELSE "return"]

\* observe from `if let Some(name) = ssid` on: the entry takes the SSID of
\* the frame, and the call goes on to the SSID cache or to the channel.
ToSsid(dev, f) ==
    LET e == dev[f.mac]
    IN  IF IsSome(f.ssid)
        THEN LET d2 == [dev EXCEPT ![f.mac].ssid = f.ssid]
             IN  IF IsSome(f.bssid)
                 THEN [devices |-> d2, pc |-> "ssid_write"]
                 ELSE ToChannel(d2, f)
        ELSE IF IsSome(f.bssid) /\ ~IsSome(e.ssid)
             THEN [devices |-> dev, pc |-> "ssid_read"]
             ELSE ToChannel(dev, f)

\* The entry of the frame's MAC as observe leaves it before it looks at the
\* SSID: created if missing, then last_seen, frames, last_rssi, bssid, role.
Entry(dev, t, f) ==
    LET e0 == IF f.mac \in DOMAIN dev
              THEN dev[f.mac]
              ELSE [mac |-> f.mac, bssid |-> f.bssid, role |-> "Unknown",
                    last_seen |-> t, last_rssi |-> None, frames |-> 0,
                    ssid |-> None, channel |-> None]
        e1 == [e0 EXCEPT !.last_seen = t, !.frames = saturating_add(@)]
        e2 == IF IsSome(f.rssi_dbm) THEN [e1 EXCEPT !.last_rssi = f.rssi_dbm]
              ELSE e1
        e3 == IF IsSome(f.bssid) THEN [e2 EXCEPT !.bssid = f.bssid] ELSE e2
    IN  [e3 EXCEPT !.role = merge_role(@, f.role)]

\* The lock a call waits for or holds at a position of observe
CacheOf(pc) ==
    IF pc \in {"ssid_write", "ssid_read", "ssid_insert", "ssid_get"}
    THEN "ssid_cache" ELSE "channel_cache"

lockOthers ==
    <<audioVars, now, shaperVars, passLog, allowedAt, settings, flagVars,
      pipeVars, handleVars>>

\* observe(mac, bssid, role, rssi_dbm, ssid, channel) is called: Instant::now()
ObserveCall(t, f) ==
    /\ calls[t].pc = "idle"
    /\ CallsMade < MaxCalls
    /\ calls' = [calls EXCEPT ![t] = [pc |-> "devices_write", op |-> "observe",
                                      f |-> f, at |-> now, n |-> @.n + 1]]
    /\ UNCHANGED <<locks, trackerVars, call, lockOthers>>

\* The guard of the device map is dropped once the entry is written.
ObserveEntry_drop(t) ==
    /\ calls[t].pc = "devices_write"
    /\ CanWrite("devices")
    /\ LET f == calls[t].f
           d1 == Insert(devices, f.mac, Entry(devices, calls[t].at, f))
           r == ToSsid(d1, f)
       IN  /\ devices' = r.devices
           /\ calls' = [calls EXCEPT ![t] =
                  [pc |-> r.pc, op |-> "observe", f |-> f, at |-> @.at,
                   n |-> @.n,
                   pre |-> [devices |-> devices, ssid_cache |-> ssid_cache,
                            channel_cache |-> channel_cache]]]
    /\ UNCHANGED <<locks, blocked, ssid_cache, channel_cache, call, lockOthers>>

\* self.devices.write() is granted: the entry is created or updated up to its
\* SSID.  calls keeps the three maps as the call found them.
ObserveEntry(t) ==
    /\ calls[t].pc = "devices_write"
    /\ CanWrite("devices")
    /\ locks' = WriteLocked(locks, "devices", t)
    /\ LET f == calls[t].f
           d1 == Insert(devices, f.mac, Entry(devices, calls[t].at, f))
           r == ToSsid(d1, f)
       IN  /\ devices' = r.devices
           /\ calls' = [calls EXCEPT ![t] =
                  [pc |-> r.pc, op |-> "observe", f |-> f, at |-> @.at,
                   n |-> @.n,
                   pre |-> [devices |-> devices, ssid_cache |-> ssid_cache,
                            channel_cache |-> channel_cache]]]
    /\ UNCHANGED <<blocked, ssid_cache, channel_cache, call, lockOthers>>

\* self.ssid_cache.write() / .read() / self.channel_cache.write() / .read()
\* is granted.
ObserveCacheLock(t) ==
    /\ calls[t].pc \in {"ssid_write", "ssid_read", "channel_write",
                        "channel_read"}
    /\ LET pc == calls[t].pc
           l == CacheOf(pc)
       IN  IF pc \in {"ssid_write", "channel_write"}
           THEN /\ CanWrite(l)
                /\ locks' = WriteLocked(locks, l, t)
                /\ calls' = [calls EXCEPT ![t].pc =
                                IF pc = "ssid_write" THEN "ssid_insert"
                                ELSE "channel_insert"]
           ELSE /\ CanRead(l)
                /\ locks' = ReadLocked(locks, l, t)
                /\ calls' = [calls EXCEPT ![t].pc =
                                IF pc = "ssid_read" THEN "ssid_get"
                                ELSE "channel_get"]
    /\ UNCHANGED <<trackerVars, call, lockOthers>>

\* cache.insert(b, name) or cache.get(&b) under the lock of the cache, which
\* is dropped at the end of the block.
ObserveCacheUse(t) ==
    /\ calls[t].pc \in {"ssid_insert", "ssid_get", "channel_insert",
                        "channel_get"}
    /\ LET pc == calls[t].pc
           f == calls[t].f
           b == Unwrap(f.bssid)
       IN  /\ locks' = Unlocked(locks, CacheOf(pc), t)
           /\ CASE pc = "ssid_insert" ->
                     LET r == ToChannel(devices, f)
                     IN  /\ ssid_cache' = Insert(ssid_cache, b, Unwrap(f.ssid))
                         /\ devices' = r.devices
                         /\ calls' = [calls EXCEPT ![t].pc = r.pc]
                         /\ UNCHANGED channel_cache
                [] pc = "ssid_get" ->
                     LET d2 == IF b \in DOMAIN ssid_cache
                               THEN [devices EXCEPT ![f.mac].ssid =
                                        Some(ssid_cache[b])]
                               ELSE devices
                         r == ToChannel(d2, f)
                     IN  /\ devices' = r.devices
                         /\ calls' = [calls EXCEPT ![t].pc = r.pc]
                         /\ UNCHANGED <<ssid_cache, channel_cache>>
                [] pc = "channel_insert" ->
                     /\ channel_cache' =
                            Insert(channel_cache, b, Unwrap(f.channel))
                     /\ calls' = [calls EXCEPT ![t].pc = "return"]
                     /\ UNCHANGED <<devices, ssid_cache>>
                [] pc = "channel_get" ->
                     /\ devices' =
                            IF b \in DOMAIN channel_cache
                            THEN [devices EXCEPT ![f.mac].channel =
                                     Some(channel_cache[b])]
                            ELSE devices
                     /\ calls' = [calls EXCEPT ![t].pc = "return"]
                     /\ UNCHANGED <<ssid_cache, channel_cache>>
    /\ UNCHANGED <<blocked, call, lockOthers>>

\* observe returns: the guard of the device map is dropped.
ObserveReturn(t) ==
    /\ calls[t].pc = "return"
    /\ locks' = UnlockedAll(locks, t)
    /\ calls' = [calls EXCEPT ![t] = Idle(@.n)]
    /\ UNCHANGED <<trackerVars, call, lockOthers>>

\* snapshot takes the caches before the device map.
SnapshotOrder_caches == <<"channel_cache", "ssid_cache", "blocked", "devices">>

\* snapshot: devices.read(), blocked.read(), ssid_cache.read(),
\* channel_cache.read()
SnapshotOrder == <<"devices", "blocked", "ssid_cache", "channel_cache">>

\* snapshot(window) is called: Instant::now()
SnapshotCall(t, win) ==
    /\ calls[t].pc = "idle"
    /\ CallsMade < MaxCalls
    /\ calls' = [calls EXCEPT ![t] = [pc |-> "read", op |-> "snapshot",
                                      window |-> win, at |-> now, held |-> 0,
                                      n |-> @.n + 1]]
    /\ UNCHANGED <<locks, trackerVars, call, lockOthers>>

\* The next read lock of snapshot is granted.
SnapshotLock(t) ==
    /\ calls[t].pc = "read"
    /\ LET l == SnapshotOrder[calls[t].held + 1]
       IN  /\ CanRead(l)
           /\ locks' = ReadLocked(locks, l, t)
    /\ calls' = [calls EXCEPT ![t].held = @ + 1,
                              ![t].pc = IF calls[t].held + 1 = Len(SnapshotOrder)
                                        THEN "collect" ELSE "read"]
    /\ UNCHANGED <<trackerVars, call, lockOthers>>

\* snapshot builds its list under the four read locks and returns it; the
\* guards are dropped.
SnapshotReturn(t) ==
    /\ calls[t].pc = "collect"
    /\ \E order \in Orders(DOMAIN devices) :
          call' = [op |-> "snapshot", thread |-> t,
                   window |-> calls[t].window,
                   list |-> snapshot(devices, blocked, ssid_cache,
                                     channel_cache, calls[t].at,
                                     calls[t].window, order)]
    /\ locks' = UnlockedAll(locks, t)
    /\ calls' = [calls EXCEPT ![t] = Idle(@.n)]
    /\ UNCHANGED <<trackerVars, lockOthers>>

\* allows(src, bssid) is called.
AllowsCall(t, src, bssid) ==
    /\ calls[t].pc = "idle"
    /\ CallsMade < MaxCalls
    /\ calls' = [calls EXCEPT ![t] = [pc |-> "blocked_read", op |-> "allows",
                                      src |-> src, bssid |-> bssid,
                                      n |-> @.n + 1]]
    /\ UNCHANGED <<locks, trackerVars, call, lockOthers>>

\* self.blocked.read() is granted.
AllowsLock(t) ==
    /\ calls[t].pc = "blocked_read"
    /\ CanRead("blocked")
    /\ locks' = ReadLocked(locks, "blocked", t)
    /\ calls' = [calls EXCEPT ![t].pc = "contains"]
    /\ UNCHANGED <<trackerVars, call, lockOthers>>

\* allows returns what the blocklist says.
AllowsReturn(t) ==
    /\ calls[t].pc = "contains"
    /\ locks' = UnlockedAll(locks, t)
    /\ calls' = [calls EXCEPT ![t] = Idle(@.n)]
    /\ UNCHANGED <<trackerVars, call, lockOthers>>

\* set_many(toggles) is called.
SetManyCall(t, toggles) ==
    /\ calls[t].pc = "idle"
    /\ CallsMade < MaxCalls
    /\ calls' = [calls EXCEPT ![t] = [pc |-> "blocked_write",
                                      op |-> "set_many", toggles |-> toggles,
                                      n |-> @.n + 1]]
    /\ UNCHANGED <<locks, trackerVars, call, lockOthers>>

\* self.blocked.write() is granted.
SetManyLock(t) ==
    /\ calls[t].pc = "blocked_write"
    /\ CanWrite("blocked")
    /\ locks' = WriteLocked(locks, "blocked", t)
    /\ calls' = [calls EXCEPT ![t].pc = "toggle"]
    /\ UNCHANGED <<trackerVars, call, lockOthers>>

\* The toggles are applied and set_many returns.
SetManyReturn(t) ==
    /\ calls[t].pc = "toggle"
    /\ blocked' = set_many(blocked, calls[t].toggles)
    /\ locks' = UnlockedAll(locks, t)
    /\ calls' = [calls EXCEPT ![t] = Idle(@.n)]
    /\ UNCHANGED <<devices, ssid_cache, channel_cache, call, lockOthers>>

\* reset_counts() is called.
ResetCall(t) ==
    /\ calls[t].pc = "idle"
    /\ CallsMade < MaxCalls
    /\ calls' = [calls EXCEPT ![t] = [pc |-> "devices_reset",
                                      op |-> "reset_counts", n |-> @.n + 1]]
    /\ UNCHANGED <<locks, trackerVars, call, lockOthers>>

\* self.devices.write() is granted.
ResetLock(t) ==
    /\ calls[t].pc = "devices_reset"
    /\ CanWrite("devices")
    /\ locks' = WriteLocked(locks, "devices", t)
    /\ calls' = [calls EXCEPT ![t].pc = "zero"]
    /\ UNCHANGED <<trackerVars, call, lockOthers>>

\* The counts are zeroed and reset_counts returns.
ResetReturn(t) ==
    /\ calls[t].pc = "zero"
    /\ devices' = reset_counts(devices)
    /\ locks' = UnlockedAll(locks, t)
    /\ calls' = [calls EXCEPT ![t] = Idle(@.n)]
    /\ UNCHANGED <<blocked, ssid_cache, channel_cache, call, lockOthers>>

\* A beacon-like frame of M2 in the network of M1 that names the SSID and
\* the channel, and a frame of M3 in the same network that names neither.
LockFrames ==
    {[mac |-> M2, bssid |-> Some(M1), role |-> "Client", rssi_dbm |-> None,
      ssid |-> Some("a"), channel |-> Some(6)],
     [mac |-> M3, bssid |-> Some(M1), role |-> "Client", rssi_dbm |-> None,
      ssid |-> None, channel |-> None]}

LockToggles == {<<<<M2, FALSE>>>>}

\* The steps of a thread inside a call
ThreadStep(t) ==
    \/ ObserveEntry(t) \/ ObserveCacheLock(t) \/ ObserveCacheUse(t)
    \/ ObserveReturn(t)
    \/ SnapshotLock(t) \/ SnapshotReturn(t)
    \/ AllowsLock(t) \/ AllowsReturn(t)
    \/ SetManyLock(t) \/ SetManyReturn(t)
    \/ ResetLock(t) \/ ResetReturn(t)

LockNext ==
    \/ \E f \in LockFrames : ObserveCall("sniffer", f)
    \/ ObserveEntry("sniffer")
    \/ ObserveCacheLock("sniffer")
    \/ ObserveCacheUse("sniffer")
    \/ ObserveReturn("sniffer")
    \/ \E t \in WebThreads, win \in SnapshotWindows : SnapshotCall(t, win)
    \/ \E t \in WebThreads : SnapshotLock(t)
    \/ \E t \in WebThreads : SnapshotReturn(t)
    \/ AllowsCall("consumer", Some(M2), Some(M1))
    \/ AllowsLock("consumer")
    \/ AllowsReturn("consumer")
    \/ \E t \in WebThreads, toggles \in LockToggles : SetManyCall(t, toggles)
    \/ \E t \in WebThreads : SetManyLock(t)
    \/ \E t \in WebThreads : SetManyReturn(t)
    \/ \E t \in WebThreads : ResetCall(t)
    \/ \E t \in WebThreads : ResetLock(t)
    \/ \E t \in WebThreads : ResetReturn(t)

LockSpec == WindowInit /\ [][LockNext]_vars

MaxLive == 3

LockLiveNext == LockNext /\ CallsMade' <= MaxLive

\* The scheduler lets every thread that can take a step of its call take it.
LockFairSpec ==
    /\ WindowInit
    /\ [][LockLiveNext]_vars
    /\ \A t \in Threads : WF_vars(ThreadStep(t))

(***************************************************************************)
(* C32.  A snapshot can interleave with a concurrent observe: there is a   *)
(* reachable execution in which snapshot runs between the steps of one     *)
(* observe call and returns a view that reflects only part of that         *)
(* observe's updates across the device records and the SSID/channel        *)
(* caches.  As stated: when observe has written the device record and its  *)
(* write to a cache is still to come, a snapshot that has been called can  *)
(* take its first lock.                                                    *)
(***************************************************************************)
C32_Pending == {"ssid_write", "ssid_insert", "channel_write", "channel_insert"}

C32_Interleaves ==
    \A s \in WebThreads :
        (calls["sniffer"].pc \in C32_Pending
         /\ calls[s].pc = "read" /\ calls[s].held = 0) =>
            ENABLED SnapshotLock(s)

(***************************************************************************)
(* C32 as amended.  A snapshot does not interleave with an observe:        *)
(* observe holds the write lock of the device map from its first update to *)
(* its return, its cache updates included, and snapshot takes the read     *)
(* lock of the device map first and keeps it to its return.  While a       *)
(* snapshot holds a lock no observe is under way; the list it returns is   *)
(* the one of the three maps as whole observe calls left them; and what an *)
(* observe call leaves when it returns is what observe makes, in one go,   *)
(* of the maps it found.                                                   *)
(***************************************************************************)
C32_Under == C32_Pending \cup {"ssid_read", "ssid_get", "channel_read",
                               "channel_get", "return"}

C32_Holds(s) == calls[s].pc = "collect" \/ (calls[s].pc = "read" /\ calls[s].held > 0)

C32_Apart ==
    \A s \in WebThreads :
        C32_Holds(s) => calls["sniffer"].pc \notin C32_Under

C32_Step ==
    /\ (calls["sniffer"].pc = "return" /\ calls'["sniffer"].pc = "idle") =>
          LET c == calls["sniffer"]
              r == observe(c.pre.devices, c.pre.ssid_cache,
                           c.pre.channel_cache, c.at, c.f.mac, c.f.bssid,
                           c.f.role, c.f.rssi_dbm, c.f.ssid, c.f.channel)
          IN  /\ devices' = r.devices
              /\ ssid_cache' = r.ssid_cache
              /\ channel_cache' = r.channel_cache
    /\ (calls["sniffer"].pc \in C32_Under
        /\ calls'["sniffer"].pc \in C32_Under) =>
          /\ calls'["sniffer"].pre = calls["sniffer"].pre
          /\ call' = call
    /\ \A s \in WebThreads :
          (calls[s].pc = "collect" /\ calls'[s].pc = "idle") =>
              /\ call'.op = "snapshot"
              /\ \E order \in Orders(DOMAIN devices) :
                    call'.list = snapshot(devices, blocked, ssid_cache,
                                          channel_cache, calls[s].at,
                                          calls[s].window, order)
              /\ UNCHANGED trackerVars

C32_Whole == []C32_Apart /\ [][C32_Step]_vars

\* An observe of the frame of M3 has been called while a snapshot holds its
\* four locks: it waits for the device map, and the snapshot is about to
\* return the device M2 as the observe before left it, record and caches.
C32_Witness ==
    /\ calls["web1"].pc = "collect"
    /\ calls["sniffer"].pc = "devices_write"
    /\ calls["sniffer"].f.mac = M3
    /\ DOMAIN devices = {M2}
    /\ devices[M2].ssid = Some("a")
    /\ ssid_cache[M1] = "a"
    /\ channel_cache[M1] = 6

(***************************************************************************)
(* C39.  DeviceTracker never deadlocks: under any interleaving of          *)
(* concurrent observe, snapshot, allows, set_many and reset_counts calls   *)
(* on the four locks (devices, blocklist, SSID cache, channel cache) every *)
(* call eventually acquires its locks and returns, because locks are       *)
(* always taken in the same order and each is released before the call     *)
(* ends.  While a call is under way some thread can take a step of its     *)
(* call; a thread that waits for a lock holds only locks that come before  *)
(* it in the order devices, blocklist, SSID cache, channel cache; a thread *)
(* outside a call holds no lock; and every call that has begun returns.    *)
(***************************************************************************)
C39_Index(l) == CHOOSE i \in 1..Len(LockNames) : LockNames[i] = l

C39_Held(t) ==
    {l \in DOMAIN locks : locks[l].writer = Some(t) \/ t \in locks[l].readers}

\* The lock a thread waits for, by its position
C39_Wanted(t) ==
    LET pc == calls[t].pc
    IN  CASE pc \in {"devices_write", "devices_reset"} -> {"devices"}
          [] pc \in {"ssid_write", "ssid_read"} -> {"ssid_cache"}
          [] pc \in {"channel_write", "channel_read"} -> {"channel_cache"}
          [] pc \in {"blocked_read", "blocked_write"} -> {"blocked"}
          [] pc = "read" -> {SnapshotOrder[calls[t].held + 1]}
          [] OTHER -> {}

C39_Ordered ==
    \A t \in Threads :
        /\ \A w \in C39_Wanted(t), h \in C39_Held(t) :
              C39_Index(h) < C39_Index(w)
        /\ calls[t].pc = "idle" => C39_Held(t) = {}

C39_NoDeadlock ==
    (\E t \in Threads : calls[t].pc # "idle") =>
        \E t \in Threads : ENABLED ThreadStep(t)

C39_Returns ==
    \A t \in Threads : (calls[t].pc # "idle") ~> (calls[t].pc = "idle")

C39_Live == [](C39_Ordered /\ C39_NoDeadlock) /\ C39_Returns

\* observe holds the device map and waits for the SSID cache, which it will
\* get; a snapshot and a reset_counts wait for the device map.
C39_Witness ==
    /\ calls["sniffer"].pc = "ssid_write"
    /\ calls["web1"].pc = "read"
    /\ calls["web1"].held = 0
    /\ calls["web2"].pc = "devices_reset"
    /\ locks["devices"].writer = Some("sniffer")
    /\ ~ENABLED ThreadStep("web1")
    /\ ~ENABLED ThreadStep("web2")

(***************************************************************************)
(* The dispatch of admitted events under every setting of the three        *)
(* routing flags: a beacon and a retried EAPOL frame of amplitude 0.2      *)
(* beside the sound settings of the web API and                            *)
(* the audio callback that drains the queue.  The websocket client has     *)
(* subscribed and reads nothing, so the channel keeps its newest event.    *)
(***************************************************************************)
DispatchEvents ==
    {[kind |-> "Beacon", rate_key |-> KeyNone, retry |-> FALSE,
      amplitude |-> 200, src |-> None, bssid |-> None],
     [kind |-> "Eapol", rate_key |-> KeyNone, retry |-> TRUE,
      amplitude |-> 200, src |-> None, bssid |-> None]}

DispatchBodies ==
    {[audio_jack |-> Some(b), web_ui |-> None, volume_by_signal |-> None] :
        b \in BOOLEAN}
    \cup {[audio_jack |-> None, web_ui |-> Some(b), volume_by_signal |-> None] :
            b \in BOOLEAN}
    \cup {[audio_jack |-> None, web_ui |-> None, volume_by_signal |-> Some(b)] :
            b \in BOOLEAN}

DispatchNext ==
    \/ \E d \in PipeSteps : ClockTick(d)
    \/ \E evt \in DispatchEvents : SnifferSend(evt)
    \/ ConsumerRecv
    \/ ConsumerAdmit
    \/ WriteSamples(MaxSlots)
    \/ \E body \in DispatchBodies : UpdateSound(body)

DispatchSpec == WindowInit /\ [][DispatchNext]_vars

(***************************************************************************)
(* C33.  An admitted event is played iff audio-enabled is true at          *)
(* dispatch, with the sound fixed by its kind, the retry glitch appended   *)
(* iff its retry flag is set, and gain equal to the event amplitude when   *)
(* volume-follows-signal is true and 1.0 otherwise; it is sent to the      *)
(* notification channel iff web-notify is enabled, independently of        *)
(* audio-enabled.                                                          *)
(***************************************************************************)
C33_Admitted ==
    /\ cons.pc = "settings"
    /\ cons'.pc = "recv"
    /\ call'.op = "consume"
    /\ call'.gates = <<TRUE, TRUE, TRUE, TRUE, TRUE>>

C33_Samples(evt, gain) ==
    LET g == IF gain < 0 THEN 0 ELSE IF gain > 1200 THEN 1200 ELSE gain
        at(buf) == [i \in 1..Len(buf) |-> (buf[i] * g) \div 1000]
    IN  at(Palette(sound_for(evt.kind)))
          \o (IF evt.retry THEN at(Palette("RetryGlitch")) ELSE <<>>)

C33_Step ==
    C33_Admitted =>
        LET evt == Unwrap(cons.evt)
            gain == IF volume_by_signal THEN evt.amplitude ELSE 1000
        IN  /\ call'.evt = evt
            /\ call'.played = audio_enabled
            /\ audio_enabled => queue' = queue \o C33_Samples(evt, gain)
            /\ ~audio_enabled => queue' = queue
            /\ call'.notified = web_sound_enabled
            /\ web_sound_enabled =>
                  /\ packet_notifier' # <<>>
                  /\ packet_notifier'[Len(packet_notifier')] = evt
                  /\ Len(packet_notifier') =
                         IF Len(packet_notifier) >= MaxNotify THEN MaxNotify
                         ELSE Len(packet_notifier) + 1
            /\ ~web_sound_enabled => packet_notifier' = packet_notifier

C33_Dispatch == [][C33_Step]_vars

\* A retried EAPOL frame of amplitude 0.2 was admitted with the audio off, the
\* notifications on and the volume following the signal after a beacon was
\* played at gain 0.2: the queue holds the beacon's run and the channel holds
\* the EAPOL event.
C33_Witness ==
    /\ call.op = "consume"
    /\ call.gates = <<TRUE, TRUE, TRUE, TRUE, TRUE>>
    /\ call.evt.kind = "Eapol"
    /\ call.evt.retry
    /\ ~call.played
    /\ call.notified
    /\ volume_by_signal
    /\ packet_notifier = <<call.evt>>
    /\ <<"Beacon", KeyNone>> \in DOMAIN limiter
    /\ queue = <<16, -16>>

(***************************************************************************)
(* C34.  A RateLimiter.allow call that returns false leaves the stored     *)
(* last-allowed timestamp of its (kind,key) and every other entry          *)
(* unchanged, so under an arbitrarily dense stream of calls for one        *)
(* (kind,key) a call is still allowed as soon as gap has elapsed since the *)
(* last allowed one: denied calls never push the next admission further    *)
(* out.  The map always holds, for every key, the time of the last allowed *)
(* call and nothing else.                                                  *)
(***************************************************************************)
C34_Step ==
    (call' # call /\ call'.op = "allow" /\ ~call'.ok) => limiter' = limiter

C34_LastAllowed == limiter = allowedAt

C34_Soon ==
    call.op = "allow" =>
        LET k == <<call.kind, call.key>>
        IN  /\ k \in DOMAIN limiter
            /\ call.ok => limiter[k] = call.at
            /\ ~call.ok <=> (call.prev >= 0 /\ call.at - call.prev < call.gap)
            /\ ~call.ok => limiter[k] = call.prev

C34_Denied == [](C34_LastAllowed /\ C34_Soon) /\ [][C34_Step]_vars

\* An Ack without key was allowed at 40 ms and is denied at 119 ms in Crowded
\* mode (gap 80 ms), after any number of denied calls in between: the entry
\* still reads 40 ms, so a call at 120 ms is allowed.
C34_Witness ==
    /\ call.op = "allow"
    /\ call.kind = "Ack"
    /\ ~call.ok
    /\ call.gap = 80
    /\ call.prev = 40
    /\ call.at = 119
    /\ limiter[<<"Ack", call.key>>] = 40
    /\ allow(limiter, 120, "Ack", call.key, 80).ok

(***************************************************************************)
(* Two devices in the control bucket: acknowledgements without key and the *)
(* RTS frames of the device M2, 40 ms apart or closer, with the audio off. *)
(***************************************************************************)
EvRts ==
    [kind |-> "Rts", rate_key |-> KeyNone, retry |-> FALSE,
     amplitude |-> 1000, src |-> Some(M2), bssid |-> None]

BucketEvents == {EvAck, EvRts}

BucketSteps == {40}

BucketNext ==
    \/ \E d \in BucketSteps : ClockTick(d)
    \/ \E evt \in BucketEvents : SnifferSend(evt)
    \/ ConsumerRecv
    \/ ConsumerAdmit

BucketSpec == SettingsInit /\ [][BucketNext]_vars

(***************************************************************************)
(* C35.  An event that passes the window gate but is then rejected by the  *)
(* rate limiter has still incremented its window bucket: the bucket        *)
(* counter counts events that passed gate 4, not events that were          *)
(* admitted, so rate-limited events of one device can exhaust the window   *)
(* cap and cause a later event of another kind or device in the same       *)
(* bucket and window to be dropped.                                        *)
(***************************************************************************)
C35_Refreshed ==
    IF now - window.start >= WindowMs
    THEN [start |-> now, counts_mgmt |-> 0, counts_ctrl |-> 0,
          counts_data |-> 0, window |-> WindowMs]
    ELSE window

C35_Others(b) == {"mgmt", "ctrl", "data"} \ {b}

C35_Step ==
    (cons.pc = "settings" /\ cons'.pc = "recv" /\ Len(call'.gates) >= 4) =>
        LET evt == Unwrap(cons.evt)
            b == C4_Bucket(evt.kind)
        IN  /\ window'.start = C35_Refreshed.start
            /\ \A o \in C35_Others(b) :
                  Count(window', o) = Count(C35_Refreshed, o)
            /\ call'.gates[4] =>
                  Count(window', b) = Count(C35_Refreshed, b) + 1
            /\ ~call'.gates[4] =>
                  /\ Count(window', b) = Count(C35_Refreshed, b)
                  /\ Count(window', b) >= CapOf(WindowCaps(settings.mode), b)
            /\ call'.gates = <<TRUE, TRUE, TRUE, TRUE, FALSE>> =>
                  /\ limiter' = limiter
                  /\ ~call'.played /\ ~call'.notified

C35_Counted == [][C35_Step]_vars

\* In the window begun at 0 an Ack was admitted at 0 and a second one counted
\* and then rejected by the limiter (gap 80 ms); at 40 ms the first RTS of M2,
\* which the limiter has never seen, is dropped by the window gate: the
\* control bucket is at its cap of 2.
C35_Witness ==
    /\ call.op = "consume"
    /\ call.evt = EvRts
    /\ call.gates = <<TRUE, TRUE, TRUE, FALSE>>
    /\ now = 40
    /\ window.start = 0
    /\ window.counts_ctrl = 2
    /\ settings.mode = "Crowded"
    /\ DOMAIN limiter = {<<"Ack", KeyNone>>}
    /\ limiter[<<"Ack", KeyNone>>] = 0

(***************************************************************************)
(* Beacons of M1 and data ticks of M2 beside an operator who blocks and    *)
(* unblocks M2 and switches the data ticks off, with the audio on and the  *)
(* callback draining the queue.                                            *)
(***************************************************************************)
DropEvents == {EvBeacon, EvData}

DropToggles == {<<<<M2, FALSE>>>>, <<<<M2, TRUE>>>>}

DropBodies ==
    {[mode |-> None,
      events |-> Some(<<[id |-> "DataTick", enabled |-> FALSE]>>)]}

DropNext ==
    \/ \E d \in PipeSteps : ClockTick(d)
    \/ \E evt \in DropEvents : SnifferSend(evt)
    \/ ConsumerRecv
    \/ ConsumerAdmit
    \/ WriteSamples(MaxSlots)
    \/ \E body \in DropBodies : UpdateEvents(body)
    \/ \E toggles \in DropToggles : PipeSetMany(toggles)

DropSpec == WindowInit /\ [][DropNext]_vars

(***************************************************************************)
(* C36.  An event dropped by the blocklist gate or by the per-kind enable  *)
(* gate changes no shaper state: the data-tick counter, the three window   *)
(* counters and window start, the rate-limiter map and the sample queue    *)
(* are all exactly as before the event.                                    *)
(***************************************************************************)
C36_Listed(evt, blk) ==
    \/ evt.src # None /\ evt.src[1] \in blk
    \/ evt.bssid # None /\ evt.bssid[1] \in blk

C36_Same ==
    /\ data_counter' = data_counter
    /\ window'.start = window.start
    /\ window'.counts_mgmt = window.counts_mgmt
    /\ window'.counts_ctrl = window.counts_ctrl
    /\ window'.counts_data = window.counts_data
    /\ limiter' = limiter
    /\ queue' = queue

C36_Step ==
    /\ (cons.pc = "recv" /\ packet_rx # <<>> /\ packet_rx' = Tail(packet_rx)
        /\ C36_Listed(Head(packet_rx), blocked)) =>
          /\ cons'.pc = "recv"
          /\ C36_Same
    /\ (cons.pc = "settings" /\ cons'.pc = "recv"
        /\ ~settings.enabled[cons.evt[1].kind]) =>
          /\ call'.gates = <<TRUE, FALSE>>
          /\ C36_Same

C36_NoTrace == [][C36_Step]_vars

\* A data tick of M2 was dropped by the enable gate after one data tick had
\* been counted and a beacon admitted and played: the counter reads 1, the
\* window holds the beacon, the limiter its time and the queue its samples.
C36_Witness ==
    /\ call.op = "consume"
    /\ call.evt = EvData
    /\ call.gates = <<TRUE, FALSE>>
    /\ ~settings.enabled["DataTick"]
    /\ data_counter = 1
    /\ window.counts_mgmt = 1
    /\ window.counts_data = 0
    /\ DOMAIN limiter = {<<"Beacon", KeyBssid(M1)>>}
    /\ queue = <<80, -80>>

(***************************************************************************)
(* Data ticks and acknowledgements beside an operator who switches between *)
(* Crowded and Sparse, with the audio off: the sniffer sends whatever the  *)
(* counter reads, and the clock moves by the length of the window.         *)
(***************************************************************************)
ModeEvents == {EvData, EvAck}

ModeBodies == {[mode |-> Some(m), events |-> None] : m \in NoiseModes}

ModeSteps == {WindowMs}

ModeSend(evt) ==
    /\ Len(packet_rx) < MaxPending
    /\ packet_rx' = Append(packet_rx, evt)
    /\ UNCHANGED <<data_counter, cons, packet_notifier, listeners, sniffer>>
    /\ UNCHANGED <<lockVars, handleVars>>
    /\ UNCHANGED <<audioVars, now, shaperVars, historyVars, settings, flagVars,
                   trackerVars>>

ModeNext ==
    \/ \E d \in ModeSteps : ClockTick(d)
    \/ \E evt \in ModeEvents : ModeSend(evt)
    \/ ConsumerRecv
    \/ ConsumerAdmit
    \/ \E body \in ModeBodies : UpdateEvents(body)

ModeSpec == SettingsInit /\ [][ModeNext]_vars

(***************************************************************************)
(* C37.  The data-tick counter stays within 0..99 after every processed    *)
(* event under any interleaving of events and Crowded/Sparse mode changes; *)
(* it is changed only by DataTick events that reach the aggregation gate   *)
(* (events of other kinds neither advance nor reset it), and the first     *)
(* DataTick after a switch from Crowded to Sparse with the counter at 9 or *)
(* more passes immediately.                                                *)
(***************************************************************************)
C37_Range == data_counter \in 0..99

\* The consumer takes a DataTick that is enabled through the aggregation gate
C37_Aggregates ==
    /\ cons.pc = "settings"
    /\ cons'.pc = "recv"
    /\ cons.evt[1].kind = "DataTick"
    /\ settings.enabled["DataTick"]

C37_Step ==
    /\ data_counter' # data_counter => C37_Aggregates
    /\ C37_Aggregates =>
          /\ data_counter' \in {data_counter + 1, 0}
          /\ (settings.mode = "Sparse" /\ data_counter >= 9) =>
                /\ data_counter' = 0
                /\ Len(call'.gates) >= 4

C37_Counter == []C37_Range /\ [][C37_Step]_vars

\* 99 data ticks were counted in Crowded mode, acknowledgements in between
\* left the counter alone, and the operator has switched to Sparse: the
\* consumer holds the next data tick, which passes.
C37_Witness ==
    /\ data_counter = 99
    /\ settings.mode = "Sparse"
    /\ call.op = "consume"
    /\ call.evt = EvAck
    /\ cons.pc = "settings"
    /\ cons.evt = Some(EvData)
    /\ aggregate(data_counter, settings.mode).ok

(***************************************************************************)
(* C38.  The data-tick counter is reset to 0 when a DataTick passes the    *)
(* aggregation gate regardless of the later gates: if that DataTick is     *)
(* then dropped by the window gate or the rate limiter it is not replayed  *)
(* and the next DataTick can pass aggregation only after a further N       *)
(* DataTicks (N the threshold of the mode: 100 in Crowded, 10 in Sparse).  *)
(***************************************************************************)
C38_N == IF settings.mode = "Crowded" THEN 100 ELSE 10

C38_Step ==
    C37_Aggregates =>
        LET passes == Len(call'.gates) >= 4
        IN  /\ call'.evt = cons.evt[1]
            /\ passes <=> data_counter + 1 >= C38_N
            /\ passes => data_counter' = 0
            /\ ~passes => data_counter' = data_counter + 1
            /\ cons'.evt = None
            /\ packet_rx' = packet_rx

C38_Reset == [][C38_Step]_vars

\* In Sparse mode the tenth data tick passed aggregation at 100 ms and was
\* rejected by the rate limiter, which had admitted a data tick at 0 ms
\* (gap 200 ms): the counter reads 0 and the tick is gone.
C38_Witness ==
    /\ call.op = "consume"
    /\ call.evt = EvData
    /\ call.gates = <<TRUE, TRUE, TRUE, TRUE, FALSE>>
    /\ settings.mode = "Sparse"
    /\ now = 100
    /\ limiter[<<"DataTick", KeyNone>>] = 0
    /\ data_counter = 0
    /\ packet_rx = <<>>
    /\ cons = [pc |-> "recv", evt |-> None, blocked |-> {}]

(***************************************************************************)
(* audio.rs with two clones of the AudioHandle playing beside the callback *)
(* that pops: play takes the mutex of the queue, appends the sound and,    *)
(* for a retry, the glitch, and drops the guard when it returns;           *)
(* pop_sample takes the mutex for one pop.  The clones begin up to         *)
(* MaxPlays calls between them.                                            *)
(***************************************************************************)
MaxPlays == 3

HandleArgs ==
    {[id |-> "BeaconTick", overlay_retry |-> TRUE, gain |-> 1000],
     [id |-> "DeauthZap", overlay_retry |-> FALSE, gain |-> 500]}

handleOthers ==
    <<playPc, playArgs, cbPc, cbLeft, cbData, now, shaperVars, historyVars,
      settings, flagVars, trackerVars, pipeVars, lockVars>>

\* play(id, overlay_retry, gain) is called on the clone h.
HandleCall(h, args) ==
    /\ handles[h].pc = "idle"
    /\ hist.n < MaxPlays
    /\ handles' = [handles EXCEPT ![h] = [pc |-> "lock", args |-> args]]
    /\ hist' = [hist EXCEPT !.n = @ + 1]
    /\ UNCHANGED <<queue, qlock, handleOthers>>

\* self.queue.lock(): the caller is parked until the mutex is free.
HandleLock(h) ==
    /\ handles[h].pc = "lock"
    /\ qlock = "free"
    /\ qlock' = h
    /\ handles' = [handles EXCEPT ![h].pc = "sound"]
    /\ hist' = [hist EXCEPT !.order = Append(@, handles[h].args)]
    /\ UNCHANGED <<queue, handleOthers>>

\* The guard is dropped between the sound and the glitch.
HandleSound_unlock(h) ==
    /\ handles[h].pc = "sound"
    /\ queue' = queue \o Scaled(Palette(handles[h].args.id),
                                handles[h].args.gain)
    /\ qlock' = "free"
    /\ handles' = [handles EXCEPT
                     ![h].pc = IF handles[h].args.overlay_retry THEN "glitch"
                               ELSE "unlock"]
    /\ UNCHANGED <<hist, handleOthers>>

\* for sample in sound.iter() { queue.push_back(..) }
HandleSound(h) ==
    /\ handles[h].pc = "sound"
    /\ queue' = queue \o Scaled(Palette(handles[h].args.id),
                                handles[h].args.gain)
    /\ handles' = [handles EXCEPT
                     ![h].pc = IF handles[h].args.overlay_retry THEN "glitch"
                               ELSE "unlock"]
    /\ UNCHANGED <<qlock, hist, handleOthers>>

\* if overlay_retry { for sample in glitch.iter() { queue.push_back(..) } }
HandleGlitch(h) ==
    /\ handles[h].pc = "glitch"
    /\ queue' = queue \o Scaled(Palette("RetryGlitch"), handles[h].args.gain)
    /\ handles' = [handles EXCEPT ![h].pc = "unlock"]
    /\ UNCHANGED <<qlock, hist, handleOthers>>

\* The guard is dropped at the end of play.
HandleUnlock(h) ==
    /\ handles[h].pc = "unlock"
    /\ qlock' = "free"
    /\ handles' = [handles EXCEPT ![h] = [pc |-> "idle"]]
    /\ UNCHANGED <<queue, hist, handleOthers>>

\* pop_sample: the mutex is taken for one pop_front and dropped; an empty
\* queue gives 0.0 and stays as it is.
HandlePop ==
    /\ qlock = "free"
    /\ queue' = IF queue = <<>> THEN <<>> ELSE Tail(queue)
    /\ hist' = IF queue = <<>> THEN hist
               ELSE [hist EXCEPT !.popped = Append(@, Head(queue))]
    /\ UNCHANGED <<qlock, handles, handleOthers>>

HandleNext ==
    \/ \E h \in Handles, args \in HandleArgs : HandleCall(h, args)
    \/ \E h \in Handles : HandleLock(h)
    \/ \E h \in Handles : HandleSound(h)
    \/ \E h \in Handles : HandleGlitch(h)
    \/ \E h \in Handles : HandleUnlock(h)
    \/ HandlePop

HandleSpec == WindowInit /\ [][HandleNext]_vars

(***************************************************************************)
(* C40.  The samples appended by one play call form one contiguous run in  *)
(* the sample queue even when the callback pops concurrently or another    *)
(* handle plays concurrently, and samples leave the queue in exactly the   *)
(* order they were appended: at every moment, samples popped so far        *)
(* followed by the queue contents equal the concatenation of all completed *)
(* play calls in lock-acquisition order.  While a play call holds the      *)
(* mutex, the queue ends with what that call has appended so far.          *)
(***************************************************************************)
C40_Run(a) ==
    LET g == IF a.gain < 0 THEN 0 ELSE IF a.gain > 1200 THEN 1200 ELSE a.gain
        at(buf) == [i \in 1..Len(buf) |-> (buf[i] * g) \div 1000]
    IN  at(Palette(a.id))
          \o (IF a.overlay_retry THEN at(Palette("RetryGlitch")) ELSE <<>>)

RECURSIVE C40_Concat(_)
C40_Concat(order) ==
    IF order = <<>> THEN <<>>
    ELSE C40_Run(Head(order)) \o C40_Concat(Tail(order))

\* What the call that holds the mutex has appended so far
C40_Partial ==
    IF qlock \notin Handles THEN <<>>
    ELSE LET a == handles[qlock].args
             pc == handles[qlock].pc
             all == C40_Run(a)
         IN  CASE pc = "sound" -> <<>>
               [] pc = "glitch" -> SubSeq(all, 1, Len(Palette(a.id)))
               [] pc = "unlock" -> all

C40_Completed ==
    IF qlock \in Handles THEN SubSeq(hist.order, 1, Len(hist.order) - 1)
    ELSE hist.order

C40_Contiguous ==
    /\ hist.popped \o queue = C40_Concat(C40_Completed) \o C40_Partial
    /\ qlock \in Handles =>
          /\ handles[qlock].pc \in {"sound", "glitch", "unlock"}
          /\ hist.order # <<>>
          /\ hist.order[Len(hist.order)] = handles[qlock].args
    /\ \A h \in Handles :
          handles[h].pc \in {"sound", "glitch", "unlock"} => qlock = h

\* h1 played the zap at gain 0.5, the callback has popped its first sample,
\* h2 holds the mutex with the beacon appended and the glitch to come, and h1
\* waits for the mutex with a third call.
C40_Witness ==
    /\ qlock = "h2"
    /\ handles["h2"].pc = "glitch"
    /\ handles["h1"].pc = "lock"
    /\ Len(hist.order) = 2
    /\ hist.order[1].id = "DeauthZap"
    /\ hist.popped = <<200>>
    /\ queue = <<-200, 80, -80>>

====
